---- MODULE Spec2Model ----
(***************************************************************************)
(* Model of the MIP Dataset Mapper (HBPMedical/mip-dmp).                   *)
(*                                                                         *)
(*  - SpecCol : transform_dataset_column applied to one dataset column     *)
(*              (mip_dmp/process/mapping.py).                              *)
(*  - SpecMap : map_dataset in schema-ordered mode                         *)
(*              (mip_dmp/process/mapping.py).                              *)
(*  - Spec    : the main window's handlers for the mapping table, its row  *)
(*              editor, and the check / save / load / map tool bar         *)
(*              (mip_dmp/qt5/components/dataset_mapper_window.py).         *)
(*                                                                         *)
(* Numbers are held exactly as a count of quarters: n = 4 * value.         *)
(***************************************************************************)
EXTENDS Integers, Sequences, FiniteSets, TLC

VARIABLES
    \* ---- SpecCol: one call of transform_dataset_column
    in_column,          \* the dataset column handed to the call
    in_cde_type,        \* cde_type argument
    in_transform_type,  \* transform_type argument
    in_transform,       \* transform argument
    out_column,         \* what the call returned or raised
    \* ---- SpecMap: one call of map_dataset
    dataset,            \* source column name -> column
    mappings,           \* list of mapping rows
    cde_codes,          \* list of schema codes
    mapped_dataset,     \* what the call returned or raised
    \* ---- Spec: the main window (attributes and widgets of the window)
    inputDatasetPath,        \* "" while unset or not an existing file
    inputDataset,            \* the loaded CSV; no column while unset
    targetCDEsPath,          \* "" while unset or not an existing file
    targetCDEs,              \* the loaded schema rows; << >> while unset
    columnsCDEsMappingData,  \* the mapping table, a list of rows
    matchedCdeCodes,         \* dataset column -> ranked codes; << >> is None
    currentRow,              \* current row of mappingTableView, -1 if none
    mappingFormLayout,       \* the widgets of the row editor
    mappingInitButton,
    mappingCheckButton,
    mappingSaveButton,
    mappingLoadButton,
    mapButton,
    mappingFile,             \* the file mappingFilePathLabel points to
    messageBox,              \* the dialog the last handler showed
    handled,                 \* number of handlers run in the session so far
    \* ---- SpecMatch: one call of match_columns_to_cdes
    match_columns,      \* dataset.columns
    match_schema,       \* the schema rows
    match_kept,         \* nb_kept_matches argument
    matching_method,    \* matching_method argument
    cosine,             \* column -> code -> cosine distance of their embeddings
    match_result,       \* what the call returned or raised
    \* ---- SpecSynth: one call of make_initial_transform
    synth_column,       \* dataset[dataset_column]
    synth_cde,          \* the schema row of cde_code
    initial_transform,  \* what the call returned or raised
    \* one call of replace_characters_in_given_keys
    update_module,      \* the module whose function is called
    in_dict,            \* the dictionary of one CDE or group
    old_chars,          \* the characters to replace
    new_chars,          \* their replacements
    in_keys,            \* the argument keys
    in_exceptions,      \* the argument exceptions, None or a list
    out_dict            \* what the call returned

colVars == <<in_column, in_cde_type, in_transform_type, in_transform, out_column>>
mapVars == <<dataset, mappings, cde_codes, mapped_dataset>>
buttonVars ==
    <<mappingInitButton, mappingCheckButton, mappingSaveButton, mappingLoadButton, mapButton>>
guiVars ==
    <<inputDatasetPath, inputDataset, targetCDEsPath, targetCDEs, columnsCDEsMappingData,
      matchedCdeCodes, currentRow, mappingFormLayout, buttonVars, mappingFile, messageBox,
      handled>>
matchVars ==
    <<match_columns, match_schema, match_kept, matching_method, cosine, match_result>>
synthVars == <<synth_column, synth_cde, initial_transform>>
cleanVars ==
    <<update_module, in_dict, old_chars, new_chars, in_keys, in_exceptions, out_dict>>
callVars == <<synthVars, cleanVars>>
vars == <<colVars, mapVars, guiVars, matchVars, callVars>>

(***************************************************************************)
(* Bounds                                                                  *)
(***************************************************************************)
MaxLen == 2          \* longest dataset column of SpecCol
MaxMappings == 2     \* most mapping rows handed to map_dataset in SpecMap
MaxRows == 2         \* most rows of the window's mapping table in Spec
MaxHandled == 10     \* longest session of Spec, in handlers run
MaxKept == 3         \* largest nb_kept_matches of SpecMatch
MaxCodes == 3        \* most codes of a schema of SpecMatch
MaxDistance == 1     \* largest cosine distance of SpecMatch, in its unit
MaxSynth == 3        \* longest dataset column of SpecSynth

(***************************************************************************)
(* The window after __init__ (dataset_mapper_window.py 145-174): nothing   *)
(* loaded, an empty row editor, every tool bar button disabled.            *)
(***************************************************************************)
\* the row editor: mappingRowIndex is -1 while its text is empty; cdeCode is
\* the combo box's item list and cdeCodeIndex its current index (-1: none)
MappingForm(rowIndex, column, items, index, ctype, ttype, text) ==
    [mappingRowIndex |-> rowIndex, datasetColumn |-> column, cdeCode |-> items,
     cdeCodeIndex |-> index, cdeType |-> ctype, transformType |-> ttype,
     transform |-> text]

NoFile == [exists |-> FALSE, rows |-> << >>]

WindowConstructed ==
    /\ inputDatasetPath = ""
    /\ inputDataset = << >>
    /\ targetCDEsPath = ""
    /\ targetCDEs = << >>
    /\ columnsCDEsMappingData = << >>
    /\ matchedCdeCodes = << >>
    /\ currentRow = -1
    /\ mappingFormLayout = MappingForm(-1, "", << >>, -1, "", "", "")
    /\ mappingInitButton = FALSE
    /\ mappingCheckButton = FALSE
    /\ mappingSaveButton = FALSE
    /\ mappingLoadButton = FALSE
    /\ mapButton = FALSE
    /\ mappingFile = NoFile
    /\ messageBox = "none"
    /\ handled = 0

\* no call of match_columns_to_cdes under way
MatchPending == [status |-> "pending", mapping_table |-> << >>, matched_cde_codes |-> << >>]
MatcherIdle ==
    /\ match_columns = << >>
    /\ match_schema = << >>
    /\ match_kept = 0
    /\ matching_method = "fuzzy"
    /\ cosine = << >>
    /\ match_result = MatchPending

\* no call of make_initial_transform under way
SynthPending == [status |-> "pending", s |-> ""]
SynthIdle ==
    /\ synth_column = << >>
    /\ synth_cde = [code |-> "", type |-> "", values |-> << >>]
    /\ initial_transform = SynthPending
CleanPending == [status |-> "pending", d |-> << >>, wb |-> << >>]
CleanIdle ==
    /\ update_module = ""
    /\ in_dict = << >>
    /\ old_chars = << >>
    /\ new_chars = << >>
    /\ in_keys = << >>
    /\ in_exceptions = [given |-> FALSE, list |-> << >>]
    /\ out_dict = CleanPending
CallsIdle == SynthIdle /\ CleanIdle

(***************************************************************************)
(* Python values held in a pandas column: missing (NaN), int, float, str.  *)
(***************************************************************************)
NaN == [k |-> "nan", n |-> 0, s |-> ""]
PyInt(q) == [k |-> "int", n |-> q, s |-> ""]
PyFloat(q) == [k |-> "float", n |-> q, s |-> ""]
PyStr(t) == [k |-> "str", n |-> 0, s |-> t]

\* pd.isnull(x)
isnull(x) == x.k = "nan"

\* dataset_column.isnull().values.any()
AnyNull(col) == \E i \in DOMAIN col : isnull(col[i])

\* str.lower() on the strings of the model
lower(t) ==
    CASE t = "M" -> "m"
      [] t = "F" -> "f"
      [] t = "Other" -> "other"
      [] t = "Male" -> "male"
      [] t = "Female" -> "female"
      [] OTHER -> t

\* the strings that float() / int() accept, with their value in quarters
NumericStrings == {"12"}
StrNumber(t) == CASE t = "12" -> 48 [] OTHER -> 0

\* truncation toward zero, as int() does on a float
Trunc(q) == IF q >= 0 THEN (q \div 4) * 4 ELSE -(((-q) \div 4) * 4)

\* float(x) succeeds
FloatOk(x) == x.k \in {"int", "float"} \/ (x.k = "str" /\ x.s \in NumericStrings)
\* float(x)
FloatOf(x) == IF x.k = "str" THEN StrNumber(x.s) ELSE x.n
\* int(x) succeeds (the element-wise cast of Series.astype(int))
IntOk(x) == x.k \in {"int", "float"} \/ (x.k = "str" /\ x.s \in NumericStrings)
\* int(x)
IntOf(x) == IF x.k = "str" THEN StrNumber(x.s) ELSE Trunc(x.n)

\* product of two numbers in quarters
Mul(a, b) == (a * b) \div 4

(***************************************************************************)
(* A cell of the transform field: a Python value of the JSON world.        *)
(* ty is its Python type, s is str(value).                                 *)
(***************************************************************************)
StrCell(t) == [ty |-> "str", s |-> t]
IntCell(t) == [ty |-> "int", s |-> t]
FloatCell(t) == [ty |-> "float", s |-> t]
NullCell == [ty |-> "null", s |-> "None"]
\* in a record of a mapping file: the record has no such key
AbsentCell == [ty |-> "absent", s |-> ""]
AbsentKey == "<absent>"

MAP_MF == "{'M': 'Male', 'F': 'Female'}"
MAP_SWAP == "{'m': 'f', 'f': 'm'}"
DEFAULT_MAP == "{ \"X\": \"Y\", \"Y\": \"X\" }"
MAP_AGE == "{'34': 'M', '61': 'M'}"
\* a dict literal whose values are not strings
MAP_INT == "{'M': 1, 'F': 2}"

\* the strings float() parses, with the float in quarters
FloatLiterals == {"1.0", "0.5", "2.0", "1", "2"}
FloatLiteral(t) ==
    CASE t = "1.0" -> 4
      [] t = "0.5" -> 2
      [] t = "2.0" -> 8
      [] t = "1" -> 4
      [] t = "2" -> 8
      [] OTHER -> 0

\* the strings eval() turns into a dict, with the dict's items in order
DictLiterals == {MAP_MF, MAP_SWAP, DEFAULT_MAP, MAP_AGE}
DictLiteral(t) ==
    CASE t = MAP_MF -> << <<"M", "Male">>, <<"F", "Female">> >>
      [] t = MAP_SWAP -> << <<"m", "f">>, <<"f", "m">> >>
      [] t = DEFAULT_MAP -> << <<"X", "Y">>, <<"Y", "X">> >>
      [] t = MAP_AGE -> << <<"34", "M">>, <<"61", "M">> >>
      [] OTHER -> << >>

(***************************************************************************)
(* Results of a call: a column, or the exception that left the call.       *)
(***************************************************************************)
Returned(col, warned) == [status |-> "ok", col |-> col, warned |-> warned]
Raised(exc) == [status |-> exc, col |-> << >>, warned |-> FALSE]
Pending == [status |-> "pending", col |-> << >>, warned |-> FALSE]
\* the same for a call that returns a table: a list of named columns
MapPending == [status |-> "pending", columns |-> << >>]

(***************************************************************************)
(* apply_transform_map (mapping.py 133-160)                                *)
(***************************************************************************)
\* dataset_column.map(lambda x: x.lower() if isinstance(x, str) else x)
LowerColumn(col) ==
    [i \in DOMAIN col |-> IF col[i].k = "str" THEN PyStr(lower(col[i].s)) ELSE col[i]]

\* dataset_column.iloc[dataset_column == old_value] = new_value
ReplaceEqual(col, old_value, new_value) ==
    [i \in DOMAIN col |->
        IF col[i].k = "str" /\ col[i].s = old_value THEN PyStr(new_value) ELSE col[i]]

\* the loop over mapping_values.items(), in the dict's order
RECURSIVE MapItems(_, _)
MapItems(col, items) ==
    IF items = << >> THEN col
    ELSE MapItems(ReplaceEqual(col, lower(Head(items)[1]), Head(items)[2]), Tail(items))

apply_transform_map(col, transform) ==
    IF transform.ty # "str" THEN Raised("TypeError")            \* eval() of a non-string
    ELSE IF transform.s \in DictLiterals
         THEN Returned(MapItems(LowerColumn(col), DictLiteral(transform.s)), FALSE)
    ELSE IF transform.s \in FloatLiterals THEN Raised("AttributeError")  \* float has no items()
    ELSE IF transform.s = "{" THEN Raised("SyntaxError")
    ELSE Raised("NameError")                                    \* eval() of a bare word

(***************************************************************************)
(* apply_transform_scale (mapping.py 163-209)                              *)
(***************************************************************************)
\* the branch for a column that holds a missing value, lines 197-208; the
\* list goes through pd.DataFrame, which holds NaN and numbers as floats
ScaleWithNaN(col, cde_type, scaling_factor) ==
    IF cde_type \notin {"integer", "real"} THEN Raised("UnboundLocalError")
    ELSE IF \E i \in DOMAIN col : ~isnull(col[i]) /\ ~FloatOk(col[i])
         THEN Raised("ValueError")
    ELSE Returned(
            [i \in DOMAIN col |->
                IF isnull(col[i]) THEN NaN
                ELSE IF cde_type = "integer"
                     THEN PyFloat(Mul(Trunc(FloatOf(col[i])), Trunc(scaling_factor)))
                     ELSE PyFloat(Mul(FloatOf(col[i]), scaling_factor))],
            FALSE)

\* the branch for a fully populated column, lines 187-195
ScaleNoNaN(col, cde_type, scaling_factor) ==
    IF cde_type = "integer"
    THEN IF \A i \in DOMAIN col : IntOk(col[i])
         THEN Returned([i \in DOMAIN col |->
                          PyInt(Mul(IntOf(col[i]), Trunc(scaling_factor)))], FALSE)
         ELSE Returned(col, TRUE)                   \* except ValueError: warning
    ELSE IF cde_type = "real"
    THEN IF \A i \in DOMAIN col : FloatOk(col[i])
         THEN Returned([i \in DOMAIN col |->
                          PyFloat(Mul(FloatOf(col[i]), scaling_factor))], FALSE)
         ELSE Returned(col, TRUE)                   \* except ValueError: warning
    ELSE Returned(col, FALSE)

\* a scale that casts nothing in the fully populated branch
apply_transform_scale_nocast(col, cde_type, scaling_factor) ==
    IF ~AnyNull(col)
    THEN IF cde_type \in {"integer", "real"} /\ \A i \in DOMAIN col : FloatOk(col[i])
         THEN Returned([i \in DOMAIN col |->
                          PyFloat(Mul(FloatOf(col[i]), scaling_factor))], FALSE)
         ELSE Returned(col, TRUE)
    ELSE ScaleWithNaN(col, cde_type, scaling_factor)

\* a scale that writes 0 where the source is missing
apply_transform_scale_zerofill(col, cde_type, scaling_factor) ==
    IF ~AnyNull(col)
    THEN ScaleNoNaN(col, cde_type, scaling_factor)
    ELSE IF cde_type \notin {"integer", "real"} THEN Raised("UnboundLocalError")
    ELSE IF \E i \in DOMAIN col : ~isnull(col[i]) /\ ~FloatOk(col[i])
         THEN Raised("ValueError")
    ELSE Returned(
            [i \in DOMAIN col |->
                IF isnull(col[i]) THEN PyFloat(0)
                ELSE PyFloat(Mul(FloatOf(col[i]), scaling_factor))],
            FALSE)

apply_transform_scale(col, cde_type, scaling_factor) ==
    IF ~AnyNull(col)
    THEN ScaleNoNaN(col, cde_type, scaling_factor)
    ELSE ScaleWithNaN(col, cde_type, scaling_factor)

(***************************************************************************)
(* transform_dataset_column (mapping.py 90-130)                            *)
(***************************************************************************)
transform_dataset_column(col, cde_type, transform_type, transform) ==
    IF transform_type = "map" /\ transform # StrCell("nan")
    THEN apply_transform_map(col, transform)
    ELSE IF transform_type = "scale" /\ transform # StrCell("nan")
    THEN IF transform.ty = "null" THEN Raised("TypeError")           \* float(None)
         ELSE IF transform.s \notin FloatLiterals THEN Raised("ValueError")  \* float("abc")
         ELSE apply_transform_scale(col, cde_type, FloatLiteral(transform.s))
    ELSE Returned(col, TRUE)            \* WARNING: No transformation applied

(***************************************************************************)
(* SpecCol: every column, CDE type, transform type and transform of the    *)
(* bounded sets below goes once through transform_dataset_column.          *)
(***************************************************************************)
ColumnValues ==
    {NaN, PyInt(8), PyFloat(6), PyFloat(-6),
     PyStr("M"), PyStr("f"), PyStr("Other"), PyStr("12")}

Columns == UNION {[1..n -> ColumnValues] : n \in 0..MaxLen}

CdeTypes == {"integer", "real", "binominal", "multinominal"}
ColCdeTypes == {"integer", "real", "multinominal"}
TransformTypes == {"scale", "map"}
ColTransforms ==
    {StrCell("1.0"), StrCell("0.5"), StrCell("2.0"), StrCell("nan"), StrCell("abc"),
     StrCell(MAP_MF), StrCell(MAP_SWAP), IntCell("1")}

InitCol ==
    /\ in_column \in Columns
    /\ in_cde_type \in ColCdeTypes
    /\ in_transform_type \in TransformTypes
    /\ in_transform \in ColTransforms
    /\ out_column = Pending
    /\ dataset = << >>
    /\ mappings = << >>
    /\ cde_codes = << >>
    /\ mapped_dataset = MapPending
    /\ WindowConstructed
    /\ MatcherIdle
    /\ CallsIdle

TransformColumn ==
    /\ out_column = Pending
    /\ out_column' =
         transform_dataset_column(in_column, in_cde_type, in_transform_type, in_transform)
    /\ UNCHANGED <<in_column, in_cde_type, in_transform_type, in_transform, mapVars, guiVars,
                 matchVars, callVars>>

NextCol == TransformColumn

SpecCol == InitCol /\ [][NextCol]_vars

(***************************************************************************)
(* Claims on transform_dataset_column                                      *)
(***************************************************************************)
ScaleApplied ==
    /\ in_transform_type = "scale"
    /\ in_transform.ty # "null"
    /\ in_transform.s \in FloatLiterals
    /\ in_cde_type \in {"integer", "real"}

MapApplied ==
    /\ in_transform_type = "map"
    /\ in_transform.ty = "str"
    /\ in_transform.s \in DictLiterals

\* C5: whenever a column comes out of transform_dataset_column, every
\* position that is missing in the source column is missing in the output
\* column, for scale and map rows and every transform value, 'nan' included.
C5_MissingPropagates ==
    out_column.status = "ok" =>
        /\ Len(out_column.col) = Len(in_column)
        /\ \A i \in DOMAIN in_column : isnull(in_column[i]) => isnull(out_column.col[i])

\* a scaled column with a missing position next to a value the scale changed
C5_Witness ==
    /\ out_column.status = "ok"
    /\ ScaleApplied
    /\ \E i, j \in DOMAIN in_column :
          /\ isnull(in_column[i]) /\ isnull(out_column.col[i])
          /\ ~isnull(in_column[j]) /\ out_column.col[j].n # in_column[j].n

\* the keys of the applied map transform, lower-cased as the code compares them
LoweredKeys == {lower(DictLiteral(in_transform.s)[j][1]) : j \in DOMAIN DictLiteral(in_transform.s)}

\* C6: when a map transform is applied, every element that no key of the
\* mapping matches is identical in the output to its value in the input.
C6_MapPassThrough ==
    (MapApplied /\ out_column.status = "ok") =>
        \A i \in DOMAIN in_column :
            (in_column[i].k # "str" \/ lower(in_column[i].s) \notin LoweredKeys)
                => out_column.col[i] = in_column[i]

\* C7: when a map transform is applied, every element whose lower-cased
\* value equals a lower-cased key is replaced by the target of that key,
\* whatever the other entries of the mapping are.
C7_MapReplacesByOwnKey ==
    (MapApplied /\ out_column.status = "ok") =>
        \A i \in DOMAIN in_column :
            \A j \in DOMAIN DictLiteral(in_transform.s) :
                (in_column[i].k = "str"
                    /\ lower(in_column[i].s) = lower(DictLiteral(in_transform.s)[j][1]))
                    => out_column.col[i] = PyStr(DictLiteral(in_transform.s)[j][2])

\* the column holds only numbers and missing values
NumericColumn == \A i \in DOMAIN in_column : in_column[i].k \in {"nan", "int", "float"}

\* the value of cast(x): int for an integer CDE, float for a real CDE
CastTo(cde_type, x) == IF cde_type = "integer" THEN Trunc(x.n) ELSE x.n

\* C8: for a scale row with float factor f, every non-missing element x of
\* a numeric column becomes cast(x) * f, for every factor and for columns
\* with and without missing values.
C8_ScaleIsCastTimesFactor ==
    (ScaleApplied /\ NumericColumn /\ out_column # Pending) =>
        /\ out_column.status = "ok"
        /\ \A i \in DOMAIN in_column :
              ~isnull(in_column[i]) =>
                  out_column.col[i].n =
                      Mul(CastTo(in_cde_type, in_column[i]), FloatLiteral(in_transform.s))

MappingRow(dc, code, ct, tt, tr) ==
    [dataset_column |-> dc, cde_code |-> code, cde_type |-> ct,
     transform_type |-> tt, transform |-> tr]

\* mapping_dict = {mapping["cde_code"]: mapping for mapping in mappings}:
\* the last row of a code is the one the dict keeps
InMappingDict(rows, code) == \E i \in DOMAIN rows : rows[i].cde_code = code
MappingDict(rows, code) ==
    rows[CHOOSE i \in DOMAIN rows :
            /\ rows[i].cde_code = code
            /\ \A j \in DOMAIN rows : rows[j].cde_code = code => j <= i]

\* one turn of the loop over cde_codes: what is appended to mapped_columns
\*   kind "series" : the transformed dataset column
\*   kind "empty"  : pd.DataFrame(columns=[cde_code])
\*   kind "none"   : nothing is appended
\*   kind "raise"  : transform_dataset_column raised
MappedColumn(ds, rows, code) ==
    IF InMappingDict(rows, code)
    THEN LET mapping == MappingDict(rows, code) IN
         IF mapping.dataset_column \in DOMAIN ds
         THEN LET r == transform_dataset_column(ds[mapping.dataset_column],
                          mapping.cde_type, mapping.transform_type, mapping.transform)
              IN IF r.status = "ok"
                 THEN [kind |-> "series", name |-> code, col |-> r.col,
                       warned |-> r.warned, exc |-> ""]
                 ELSE [kind |-> "raise", name |-> code, col |-> << >>,
                       warned |-> FALSE, exc |-> r.status]
         ELSE [kind |-> "none", name |-> code, col |-> << >>, warned |-> FALSE, exc |-> ""]
    ELSE [kind |-> "empty", name |-> code, col |-> << >>, warned |-> TRUE, exc |-> ""]

\* the list mapped_columns after the loop, raising turns included
MappedColumns(ds, rows, codes) ==
    [i \in DOMAIN codes |-> MappedColumn(ds, rows, codes[i])]

RECURSIVE DropNone(_)
DropNone(ms) ==
    IF ms = << >> THEN << >>
    ELSE IF Head(ms).kind = "none" THEN DropNone(Tail(ms))
    ELSE <<Head(ms)>> \o DropNone(Tail(ms))

\* number of rows of the dataset
NbRows(ds) == IF DOMAIN ds = {} THEN 0 ELSE Len(ds[CHOOSE c \in DOMAIN ds : TRUE])

\* pd.concat(mapped_columns, axis=1): the columns side by side on the union
\* of their indexes; an empty frame's column is missing at every row
Concat(ms, nbRows) ==
    IF ms = << >> THEN [status |-> "ValueError", columns |-> << >>]   \* No objects to concatenate
    ELSE LET n == IF \E i \in DOMAIN ms : ms[i].kind = "series" THEN nbRows ELSE 0 IN
         [status |-> "ok",
          columns |-> [i \in DOMAIN ms |->
              [name |-> ms[i].name,
               warned |-> ms[i].warned,
               col |-> IF ms[i].kind = "series" THEN ms[i].col ELSE [r \in 1..n |-> NaN]]]]

map_dataset(ds, rows, codes) ==
    LET ms == MappedColumns(ds, rows, codes) IN
    IF \E i \in DOMAIN ms : ms[i].kind = "raise"
    THEN [status |-> ms[CHOOSE i \in DOMAIN ms :
                          /\ ms[i].kind = "raise"
                          /\ \A j \in DOMAIN ms : ms[j].kind = "raise" => i <= j].exc,
          columns |-> << >>]
    ELSE Concat(DropNone(ms), NbRows(ds))

(***************************************************************************)
(* SpecMap: datasets of two source columns, lists of mapping rows and code *)
(* lists go once through map_dataset.                                      *)
(***************************************************************************)
MapColumnsA ==
    {<<PyInt(8), PyFloat(6)>>, <<PyInt(8), NaN>>,
     <<PyStr("Other"), PyStr("M")>>, <<PyStr("Other"), NaN>>}
MapColumnsB == {<<PyFloat(6), PyInt(8)>>}
MapDatasets == {[c \in {"a", "b"} |-> IF c = "a" THEN x ELSE y] : x \in MapColumnsA, y \in MapColumnsB}

MapPayloads ==
    {<<"integer", "scale", StrCell("1.0")>>, <<"real", "scale", StrCell("2.0")>>,
     <<"multinominal", "map", StrCell(MAP_MF)>>, <<"integer", "scale", StrCell("nan")>>}
MapRows ==
    {MappingRow(dc, code, p[1], p[2], p[3]) :
        dc \in {"a", "b", "zz"}, code \in {"c1", "c2"}, p \in MapPayloads}
MapRowLists == UNION {[1..n -> MapRows] : n \in 0..MaxMappings}
CodeLists == {<< >>, <<"c1">>, <<"c1", "c2">>, <<"c2", "c1">>, <<"c1", "c2", "c3">>}

InitMap ==
    /\ dataset \in MapDatasets
    /\ mappings \in MapRowLists
    /\ cde_codes \in CodeLists
    /\ mapped_dataset = MapPending
    /\ in_column = << >>
    /\ in_cde_type = "integer"
    /\ in_transform_type = "scale"
    /\ in_transform = StrCell("nan")
    /\ out_column = Pending
    /\ WindowConstructed
    /\ MatcherIdle
    /\ CallsIdle

MapDataset ==
    /\ mapped_dataset = MapPending
    /\ mapped_dataset' = map_dataset(dataset, mappings, cde_codes)
    /\ UNCHANGED <<dataset, mappings, cde_codes, colVars, guiVars, matchVars,
                 callVars>>

NextMap == MapDataset

SpecMap == InitMap /\ [][NextMap]_vars

(***************************************************************************)
(* Claims on map_dataset                                                   *)
(***************************************************************************)
ColumnNames(columns) == [i \in DOMAIN columns |-> columns[i].name]

\* C4: in schema-ordered mode the output has exactly one column per schema
\* code, in schema order; a code without mapping row, or whose source column
\* is not in the dataset, is an all-missing column.
C4_OneColumnPerSchemaCode ==
    mapped_dataset.status = "ok" =>
        /\ ColumnNames(mapped_dataset.columns) = cde_codes
        /\ \A i \in DOMAIN cde_codes :
              (~InMappingDict(mappings, cde_codes[i])
                 \/ MappingDict(mappings, cde_codes[i]).dataset_column \notin DOMAIN dataset)
              => \A r \in DOMAIN mapped_dataset.columns[i].col :
                    isnull(mapped_dataset.columns[i].col[r])

\* the column of the row that map_dataset applies for this code cannot be
\* cast to the CDE's numeric type
CastFails(code) ==
    /\ InMappingDict(mappings, code)
    /\ LET m == MappingDict(mappings, code) IN
       /\ m.dataset_column \in DOMAIN dataset
       /\ m.transform_type = "scale"
       /\ m.transform.ty = "str" /\ m.transform.s \in FloatLiterals
       /\ m.cde_type \in {"integer", "real"}
       /\ \E r \in DOMAIN dataset[m.dataset_column] :
             LET x == dataset[m.dataset_column][r] IN ~isnull(x) /\ ~FloatOk(x)

\* C10: when the column of a scale row cannot be cast to the CDE's numeric
\* type, map_dataset does not abort: that column is emitted unscaled with a
\* warning, whether or not it contains missing values.
C10_CastFailureIsRecovered ==
    \A i \in DOMAIN cde_codes :
        (mapped_dataset # MapPending /\ CastFails(cde_codes[i])) =>
            /\ mapped_dataset.status = "ok"
            /\ \E k \in DOMAIN mapped_dataset.columns :
                  /\ mapped_dataset.columns[k].name = cde_codes[i]
                  /\ mapped_dataset.columns[k].warned
                  /\ mapped_dataset.columns[k].col =
                        dataset[MappingDict(mappings, cde_codes[i]).dataset_column]

(***************************************************************************)
(* The files the user of the window works with.                            *)
(***************************************************************************)
\* the input CSV: two columns, in this order
DatasetColumns == <<"age", "sex">>
DatasetFile ==
    [c \in {"age", "sex"} |->
        IF c = "age" THEN <<PyInt(136), PyInt(244)>> ELSE <<PyStr("M"), PyStr("F")>>]

\* the CDEs schema: one numeric and one categorical code
\* the "values" cell of a schema row, as eval() reads it: the items of a
\* dict in order, or NoValues where the cell is empty
NoValues == << <<"<empty>", "<empty>">> >>
VALUES_MF == << <<"M", "Male">>, <<"F", "Female">> >>
SchemaFile ==
    << [code |-> "agevalue", type |-> "integer", values |-> NoValues],
       [code |-> "gender", type |-> "multinominal", values |-> VALUES_MF] >>

\* schema["code"] as a list
SchemaCodes(schema) == [i \in DOMAIN schema |-> schema[i].code]
InSchema(schema, code) == \E i \in DOMAIN schema : schema[i].code = code
\* schema[schema["code"] == code]["type"].iloc[0]
SchemaType(schema, code) ==
    schema[CHOOSE i \in DOMAIN schema :
              /\ schema[i].code = code
              /\ \A j \in DOMAIN schema : schema[j].code = code => i <= j].type

\* Python's seq[i] with i possibly negative
PyIndexOk(seq, i) == -Len(seq) <= i /\ i < Len(seq)
PyAt(seq, i) == IF i >= 0 THEN seq[i + 1] ELSE seq[Len(seq) + i + 1]
\* seq.index(x), 0-based
PyIndexOf(seq, x) ==
    (CHOOSE i \in DOMAIN seq : seq[i] = x /\ \A j \in DOMAIN seq : seq[j] = x => i <= j) - 1
InSeq(seq, x) == \E i \in DOMAIN seq : seq[i] = x

(***************************************************************************)
(* match_columns_to_cdes, fuzzy method (matching.py 32-177)                *)
(***************************************************************************)
NbKeptMatches == 10

\* fuzz.ratio(column, code) on the names of the two files
FuzzRatio(column, code) ==
    CASE column = "age" /\ code = "agevalue" -> 55
      [] column = "age" /\ code = "gender" -> 44
      [] column = "sex" /\ code = "agevalue" -> 18
      [] column = "sex" /\ code = "gender" -> 22
      [] column = "age" /\ code = "valueage" -> 55
      [] column = "sex" /\ code = "valueage" -> 18
      [] column = code -> 100
      [] column = "M" /\ code = "Male" -> 40
      [] column = "M" /\ code = "Missing" -> 25
      [] column = "F" /\ code = "Female" -> 29
      [] column = "nan" /\ code = "Male" -> 29
      [] column = "nan" /\ code = "Female" -> 22
      [] column = "nan" /\ code = "Missing" -> 20
      [] OTHER -> 0

\* the fuzzy ranking without its cut to nb_kept_matches
FuzzyMatches_nocut(column, codes, nb_kept_matches) ==
    LET Before(j, i) ==
            \/ FuzzRatio(column, codes[j]) > FuzzRatio(column, codes[i])
            \/ FuzzRatio(column, codes[j]) = FuzzRatio(column, codes[i]) /\ j < i
        Rank(i) == Cardinality({j \in DOMAIN codes : Before(j, i)}) + 1
    IN [p \in DOMAIN codes |-> codes[CHOOSE i \in DOMAIN codes : Rank(i) = p]]
\* the fuzzy ranking sorted without reverse=True
FuzzyMatches_ascending(column, codes, nb_kept_matches) ==
    LET Before(j, i) ==
            \/ FuzzRatio(column, codes[j]) < FuzzRatio(column, codes[i])
            \/ FuzzRatio(column, codes[j]) = FuzzRatio(column, codes[i]) /\ j < i
        Rank(i) == Cardinality({j \in DOMAIN codes : Before(j, i)}) + 1
        sorted == [p \in DOMAIN codes |-> codes[CHOOSE i \in DOMAIN codes : Rank(i) = p]]
    IN SubSeq(sorted, 1, IF Len(sorted) < nb_kept_matches THEN Len(sorted)
                         ELSE nb_kept_matches)
\* sorted(schema["code"], key=fuzz.ratio, reverse=True)[0:nb_kept_matches]:
\* a stable sort, equal ratios keep the schema's order
FuzzyMatches(column, codes, nb_kept_matches) ==
    LET Before(j, i) ==
            \/ FuzzRatio(column, codes[j]) > FuzzRatio(column, codes[i])
            \/ FuzzRatio(column, codes[j]) = FuzzRatio(column, codes[i]) /\ j < i
        Rank(i) == Cardinality({j \in DOMAIN codes : Before(j, i)}) + 1
        sorted == [p \in DOMAIN codes |-> codes[CHOOSE i \in DOMAIN codes : Rank(i) = p]]
    IN SubSeq(sorted, 1, IF Len(sorted) < nb_kept_matches THEN Len(sorted)
                         ELSE nb_kept_matches)

\* str(x) of a column value; numbers are counted in quarters
DigitText(d) ==
    CASE d = 0 -> "0" [] d = 1 -> "1" [] d = 2 -> "2" [] d = 3 -> "3" [] d = 4 -> "4"
      [] d = 5 -> "5" [] d = 6 -> "6" [] d = 7 -> "7" [] d = 8 -> "8" [] OTHER -> "9"
RECURSIVE NatText(_)
NatText(n) == IF n < 10 THEN DigitText(n) ELSE NatText(n \div 10) \o DigitText(n % 10)
PyText(x) ==
    CASE x.k = "nan" -> "nan"
      [] x.k = "str" -> x.s
      [] x.k = "int" -> IF x.n < 0 THEN "-" \o NatText((-x.n) \div 4) ELSE NatText(x.n \div 4)
      [] OTHER -> (IF x.n < 0 THEN "-" ELSE "")
                  \o NatText((IF x.n < 0 THEN -x.n ELSE x.n) \div 4)
                  \o (CASE x.n % 4 = 0 -> ".0" [] x.n % 4 = 1 -> ".25"
                        [] x.n % 4 = 2 -> ".5" [] OTHER -> ".75")

\* Series.unique(): the values in order of first appearance
Unique(col) ==
    LET first == {i \in DOMAIN col : \A j \in DOMAIN col : col[j] = col[i] => i <= j}
        Nth(p) == CHOOSE i \in first : Cardinality({j \in first : j < i}) = p - 1
    IN [p \in 1..Cardinality(first) |-> col[Nth(p)]]

\* is_number(s) (process/utils.py 17-34): float(s) succeeds, as it does on "nan"
is_number(t) ==
    t \in NumericStrings \cup FloatLiterals \cup {"nan"} \cup {NatText(n) : n \in 0..99}

\* str(dict) of a dict of strings, given its items in order
RECURSIVE ItemsText(_)
ItemsText(items) ==
    IF items = << >> THEN ""
    ELSE "'" \o items[1][1] \o "': '" \o items[1][2] \o "'"
         \o (IF Len(items) > 1 THEN ", " ELSE "") \o ItemsText(Tail(items))
DictText(items) == "{" \o ItemsText(items) \o "}"

\* the last of the values with the highest ratio
BestValue_last(dataset_column_value, cde_code_values) ==
    cde_code_values[
        CHOOSE i \in DOMAIN cde_code_values :
            \A j \in DOMAIN cde_code_values :
                \/ FuzzRatio(dataset_column_value, cde_code_values[j])
                      < FuzzRatio(dataset_column_value, cde_code_values[i])
                \/ FuzzRatio(dataset_column_value, cde_code_values[j])
                      = FuzzRatio(dataset_column_value, cde_code_values[i]) /\ i >= j]
\* sorted(cde_code_values, key=fuzz.ratio, reverse=True)[0]: the first of
\* the values with the highest ratio
BestValue(dataset_column_value, cde_code_values) ==
    cde_code_values[
        CHOOSE i \in DOMAIN cde_code_values :
            \A j \in DOMAIN cde_code_values :
                \/ FuzzRatio(dataset_column_value, cde_code_values[j])
                      < FuzzRatio(dataset_column_value, cde_code_values[i])
                \/ FuzzRatio(dataset_column_value, cde_code_values[j])
                      = FuzzRatio(dataset_column_value, cde_code_values[i]) /\ i <= j]

\* the items of a dict comprehension over keys[i]: values[i], kept where
\* keep[i]; the keys are distinct
DictItems(keys, values, keep) ==
    LET kept == {i \in DOMAIN keys : keep[i]}
        Nth(p) == CHOOSE i \in kept : Cardinality({j \in kept : j < i}) = p - 1
    IN [p \in 1..Cardinality(kept) |-> <<keys[Nth(p)], values[Nth(p)]>>]

\* generate_initial_transform keeping every positional pair
generate_initial_transform_keepall(dataset_column_values, cde_code_values) ==
    IF /\ Len(dataset_column_values) = 1
       /\ dataset_column_values[1] = "nan"
       /\ ~InSeq(cde_code_values, "nan")
    THEN "nan"
    ELSE IF /\ InSeq(dataset_column_values, "nan")
            /\ \A i \in DOMAIN dataset_column_values : dataset_column_values[i] = "nan"
    THEN "nan"
    ELSE IF Len(dataset_column_values) = Len(cde_code_values)
    THEN DictText(DictItems(dataset_column_values,
                            [i \in DOMAIN dataset_column_values |->
                                BestValue(dataset_column_values[i], cde_code_values)],
                            [i \in DOMAIN dataset_column_values |-> TRUE]))
    ELSE IF Len(dataset_column_values) < Len(cde_code_values)
    THEN DictText(DictItems(dataset_column_values,
                            [i \in DOMAIN dataset_column_values |-> cde_code_values[i]],
                            [i \in DOMAIN dataset_column_values |-> TRUE]))
    ELSE DictText(DictItems(dataset_column_values,
                            [i \in DOMAIN dataset_column_values |-> "nan"],
                            [i \in DOMAIN dataset_column_values |-> TRUE]))
\* generate_initial_transform (matching.py 256-330)
generate_initial_transform(dataset_column_values, cde_code_values) ==
    IF /\ Len(dataset_column_values) = 1
       /\ dataset_column_values[1] = "nan"
       /\ ~InSeq(cde_code_values, "nan")
    THEN "nan"
    ELSE IF /\ InSeq(dataset_column_values, "nan")
            /\ \A i \in DOMAIN dataset_column_values : dataset_column_values[i] = "nan"
    THEN "nan"
    ELSE IF Len(dataset_column_values) = Len(cde_code_values)
    THEN DictText(DictItems(dataset_column_values,
                            [i \in DOMAIN dataset_column_values |->
                                BestValue(dataset_column_values[i], cde_code_values)],
                            [i \in DOMAIN dataset_column_values |-> TRUE]))
    ELSE IF Len(dataset_column_values) < Len(cde_code_values)
    THEN DictText(DictItems(dataset_column_values,
                            [i \in DOMAIN dataset_column_values |-> cde_code_values[i]],
                            [i \in DOMAIN dataset_column_values |->
                                (dataset_column_values[i] = "nan") = (cde_code_values[i] = "nan")]))
    ELSE DictText(DictItems(dataset_column_values,
                            [i \in DOMAIN dataset_column_values |-> "nan"],
                            [i \in DOMAIN dataset_column_values |-> TRUE]))

\* schema[schema["code"] == code]["values"].iloc[0]
SchemaValues(schema, code) ==
    schema[CHOOSE i \in DOMAIN schema :
              /\ schema[i].code = code
              /\ \A j \in DOMAIN schema : schema[j].code = code => i <= j].values

\* dataset[dataset_column].unique() as strings (matching.py 222-225)
ColumnValueTexts(col) ==
    LET uniques == Unique(col) IN [i \in DOMAIN uniques |-> PyText(uniques[i])]
\* the keys of the values dict when a column value is a number, its texts
\* otherwise (matching.py 229-244)
CdeCodeValues(dataset_column_values, cde_code_values_dict) ==
    IF \E i \in DOMAIN dataset_column_values : is_number(dataset_column_values[i])
    THEN [i \in DOMAIN cde_code_values_dict |-> cde_code_values_dict[i][1]]
    ELSE [i \in DOMAIN cde_code_values_dict |-> cde_code_values_dict[i][2]]

\* make_initial_transform (matching.py 180-253): the transform, or the
\* exception that leaves the call (eval of an empty values cell, the string
\* "nan", raises NameError)
make_initial_transform(frame, schema, dataset_column, cde_code) ==
    LET cde_type == SchemaType(schema, cde_code)
        cde_code_values_dict == SchemaValues(schema, cde_code)
        dataset_column_values == ColumnValueTexts(frame[dataset_column])
        cde_code_values == CdeCodeValues(dataset_column_values, cde_code_values_dict)
    IN
    IF cde_type \in {"integer", "real"} THEN [status |-> "ok", s |-> "1.0"]
    ELSE IF cde_type \in {"binominal", "multinominal", "nominal"}
         THEN IF cde_code_values_dict = NoValues
              THEN [status |-> "NameError", s |-> ""]
              ELSE [status |-> "ok",
                    s |-> generate_initial_transform(dataset_column_values, cde_code_values)]
    ELSE [status |-> "ValueError", s |-> ""]

\* the matched_cde_codes dict: dataset column -> its "words"
MatchedWords(columns, schema, nb_kept_matches) ==
    [c \in {columns[i] : i \in DOMAIN columns} |->
        FuzzyMatches(c, SchemaCodes(schema), nb_kept_matches)]

\* the mapping_table: one row per dataset column, the best match as cde_code
match_columns_to_cdes(frame, columns, schema, nb_kept_matches) ==
    LET words == MatchedWords(columns, schema, nb_kept_matches) IN
    [i \in DOMAIN columns |->
        LET cde_code == words[columns[i]][1]
            cde_type == SchemaType(schema, cde_code)
        IN MappingRow(columns[i], cde_code, cde_type,
                      IF cde_type \in {"integer", "real"} THEN "scale" ELSE "map",
                      StrCell(make_initial_transform(frame, schema, columns[i], cde_code).s))]

(***************************************************************************)
(* The row editor (dataset_mapper_window.py 726-775)                       *)
(***************************************************************************)
\* self.cdeCode.currentText()
currentText(form) ==
    IF form.cdeCodeIndex >= 0 /\ form.cdeCodeIndex < Len(form.cdeCode)
    THEN form.cdeCode[form.cdeCodeIndex + 1] ELSE ""

\* the matches offered for a row: its column's words, or every schema code
\* while matchedCdeCodes is None
HasColumnMatches(matched, schema, column) ==
    DOMAIN matched = {} \/ column \in DOMAIN matched
ColumnMatches(matched, schema, column) ==
    IF DOMAIN matched # {} THEN matched[column] ELSE SchemaCodes(schema)

\* updateMappingEditForm(index), the slot of cdeCode.currentIndexChanged; an
\* exception leaves the widgets as they are
updateMappingEditForm(form, table, matched, schema, index) ==
    IF form.mappingRowIndex < 0 THEN form                        \* int(""): ValueError
    ELSE IF form.mappingRowIndex >= Len(table) THEN form         \* iloc: IndexError
    ELSE LET rowData == table[form.mappingRowIndex + 1] IN
         IF ~HasColumnMatches(matched, schema, rowData.dataset_column)
         THEN form                                               \* KeyError
         ELSE LET columnMatches == ColumnMatches(matched, schema, rowData.dataset_column) IN
              IF ~PyIndexOk(columnMatches, index) THEN form      \* IndexError
              ELSE LET cdeType == SchemaType(schema, PyAt(columnMatches, index))
                       numeric == cdeType \in {"real", "integer"}
                       same == currentText(form) = rowData.cde_code
                   IN [form EXCEPT
                         !.cdeType = cdeType,
                         !.transformType = IF numeric THEN "scale" ELSE "map",
                         !.transform = IF same THEN rowData.transform.s
                                       ELSE IF numeric THEN "1.0" ELSE DEFAULT_MAP]

\* initializeMappingEditForm(index), the slot of currentRowChanged; clear(),
\* addItems() and setCurrentIndex() each emit currentIndexChanged when they
\* change the combo box's current index
initializeMappingEditForm(form, table, matched, schema, row) ==
    LET rowData == table[row + 1]
        f1 == [form EXCEPT !.mappingRowIndex = row,
                           !.datasetColumn = rowData.dataset_column]
    IN IF ~HasColumnMatches(matched, schema, rowData.dataset_column)
       THEN f1                                                   \* KeyError
       ELSE
       LET columnMatches == ColumnMatches(matched, schema, rowData.dataset_column)
           cleared == [f1 EXCEPT !.cdeCode = << >>, !.cdeCodeIndex = -1]
           f2 == IF f1.cdeCodeIndex >= 0
                 THEN updateMappingEditForm(cleared, table, matched, schema, -1)
                 ELSE cleared
           f3 == IF columnMatches = << >> THEN f2
                 ELSE updateMappingEditForm(
                        [f2 EXCEPT !.cdeCode = columnMatches, !.cdeCodeIndex = 0],
                        table, matched, schema, 0)
       IN IF ~InSeq(columnMatches, rowData.cde_code) THEN f3     \* ValueError
          ELSE LET ind == PyIndexOf(columnMatches, rowData.cde_code)
                   f4 == IF ind # 0
                         THEN updateMappingEditForm([f3 EXCEPT !.cdeCodeIndex = ind],
                                                    table, matched, schema, ind)
                         ELSE f3
                   cdeType == SchemaType(schema, columnMatches[ind + 1])
               IN [f4 EXCEPT
                     !.cdeType = cdeType,
                     !.transformType =
                        IF cdeType \in {"real", "integer"} THEN "scale" ELSE "map",
                     !.transform = rowData.transform.s]

(***************************************************************************)
(* The mapping file: to_json / read_json / json.load                       *)
(***************************************************************************)
\* DataFrame.to_json(orient="records"): a missing float is written as null
to_json(table) ==
    [exists |-> TRUE,
     rows |-> [i \in DOMAIN table |->
                 IF table[i].transform = FloatCell("nan")
                 THEN [table[i] EXCEPT !.transform = NullCell]
                 ELSE table[i]]]

\* str() of the numbers of the model, as int and as float
IntText(q) == CASE q = 4 -> "1" [] q = 8 -> "2" [] OTHER -> "0"
FloatText(q) == CASE q = 4 -> "1.0" [] q = 8 -> "2.0" [] q = 2 -> "0.5" [] OTHER -> "0.0"

\* pd.read_json's dtype inference on the transform column: a column whose
\* every value casts to float64 becomes numeric, and int64 when every value
\* is whole; any other column is kept as it is
\* a key that a record lacks is NaN in the frame
CastsToFloat(cell) ==
    \/ cell.ty \in {"int", "float", "null", "absent"}
    \/ cell.ty = "str" /\ cell.s \in FloatLiterals \cup {"nan"}
IsMissing(cell) == cell.ty \in {"null", "absent"} \/ cell.s = "nan"
ConvertTransforms(rows) ==
    IF \A i \in DOMAIN rows : CastsToFloat(rows[i].transform)
    THEN IF \A i \in DOMAIN rows :
               /\ ~IsMissing(rows[i].transform)
               /\ FloatLiteral(rows[i].transform.s) % 4 = 0
         THEN [i \in DOMAIN rows |->
                 [rows[i] EXCEPT !.transform =
                     IntCell(IntText(FloatLiteral(rows[i].transform.s)))]]
         ELSE [i \in DOMAIN rows |->
                 [rows[i] EXCEPT !.transform =
                     IF IsMissing(rows[i].transform) THEN FloatCell("nan")
                     ELSE FloatCell(FloatText(FloatLiteral(rows[i].transform.s)))]]
    ELSE [i \in DOMAIN rows |->
            IF rows[i].transform = AbsentCell
            THEN [rows[i] EXCEPT !.transform = FloatCell("nan")]
            ELSE rows[i]]

\* the keys of MAPPING_TABLE_COLUMNS (mapping.py 18-24)
MAPPING_TABLE_COLUMNS ==
    {"dataset_column", "cde_code", "cde_type", "transform_type", "transform"}
\* the record has the key
HasKey(record, key) ==
    IF key = "transform" THEN record.transform # AbsentCell ELSE record[key] # AbsentKey
\* data.columns of pd.read_json(orient="records"): the keys of all records
JsonColumns(rows) ==
    {key \in MAPPING_TABLE_COLUMNS : \E i \in DOMAIN rows : HasKey(rows[i], key)}

\* load_mapping_json (utils/io.py 78-101) accepts the file: every column of
\* MAPPING_TABLE_COLUMNS is there; a file of no record has no column
MappingJsonOk(file) == \A col \in MAPPING_TABLE_COLUMNS : col \in JsonColumns(file.rows)
load_mapping_json(file) == ConvertTransforms(file.rows)

(***************************************************************************)
(* checkMapping's three tests (dataset_mapper_window.py 1014-1129)         *)
(***************************************************************************)
\* ast.literal_eval(f"{transform}")
literal_eval(text) ==
    IF text \in FloatLiterals \cup DictLiterals \cup {"None", "0.0", MAP_INT} THEN "ok"
    ELSE IF text = "{}" THEN "ok"
    ELSE IF Len(text) >= 4 /\ SubSeq(text, 1, 2) = "{'"
                           /\ SubSeq(text, Len(text) - 1, Len(text)) = "'}" THEN "ok"
    ELSE IF text \in {"", "{"} THEN "SyntaxError"
    ELSE "ValueError"

HasDuplicateCode(table) ==
    \E i, j \in DOMAIN table : i # j /\ table[i].cde_code = table[j].cde_code

\* checkMapping without its first test
MappingVerdict_nodup(table, schema) ==
    IF \A i \in DOMAIN table : ~InSchema(schema, table[i].cde_code)
    THEN "Error: Invalid CDE Codes"
    ELSE IF \E i \in DOMAIN table : literal_eval(table[i].transform.s) = "SyntaxError"
    THEN "SyntaxError"
    ELSE IF \E i \in DOMAIN table : literal_eval(table[i].transform.s) = "ValueError"
    THEN "Error: Invalid Transform"
    ELSE "The mapping is valid!"

\* the dialog checkMapping ends with, or the exception that leaves it
MappingVerdict(table, schema) ==
    IF HasDuplicateCode(table)
    THEN "Error: Duplicated mapped CDE code"
    ELSE IF \A i \in DOMAIN table : ~InSchema(schema, table[i].cde_code)
    THEN "Error: Invalid CDE Codes"
    ELSE IF \E i \in DOMAIN table : literal_eval(table[i].transform.s) = "SyntaxError"
    THEN "SyntaxError"
    ELSE IF \E i \in DOMAIN table : literal_eval(table[i].transform.s) = "ValueError"
    THEN "Error: Invalid Transform"
    ELSE "The mapping is valid!"

(***************************************************************************)
(* Spec: the handlers of the main window.  Each handler is one action; an  *)
(* exception that leaves a handler keeps what the handler had done so far. *)
(* messageBox is the dialog the handler showed, "none" if it showed none.  *)
(***************************************************************************)
\* one more handler runs in the session
Handle == handled < MaxHandled /\ handled' = handled + 1

\* what the user can type into the transform line edit
UserTransforms == {"abc"}

\* mapping files written outside the window: one whose row has a CDE type
\* that does not go with its transform type, one where no record has the
\* key "transform", one where only the second record lacks it
FILE_TYPES ==
    [exists |-> TRUE,
     rows |-> <<MappingRow("sex", "gender", "integer", "map", StrCell(MAP_MF))>>]
FILE_INCOMPLETE ==
    [exists |-> TRUE,
     rows |-> <<MappingRow("sex", "gender", "multinominal", "map", AbsentCell)>>]
FILE_PARTIAL ==
    [exists |-> TRUE,
     rows |-> <<MappingRow("sex", "gender", "multinominal", "map", StrCell(MAP_MF)),
                MappingRow("age", "agevalue", "integer", "scale", AbsentCell)>>]
ExternalFiles == {FILE_TYPES, FILE_INCOMPLETE, FILE_PARTIAL}

disableMappingMapButtons ==
    /\ mappingCheckButton' = FALSE
    /\ mappingSaveButton' = FALSE
    /\ mappingLoadButton' = FALSE
    /\ mapButton' = FALSE

enableMappingButtons ==
    /\ mappingCheckButton' = TRUE
    /\ mappingLoadButton' = TRUE

\* initMapping (1131-1165): an empty table in a new model, nothing selected
initMapping ==
    /\ matchedCdeCodes' = << >>
    /\ columnsCDEsMappingData' = << >>
    /\ currentRow' = -1

\* setModel() then selectRow(0) on the new table: row 0 becomes current and
\* currentRowChanged runs initializeMappingEditForm, unless the table is empty
SelectFirstRow ==
    IF columnsCDEsMappingData' = << >>
    THEN currentRow' = -1 /\ UNCHANGED mappingFormLayout
    ELSE /\ currentRow' = 0
         /\ mappingFormLayout' =
               initializeMappingEditForm(mappingFormLayout, columnsCDEsMappingData',
                                         matchedCdeCodes', targetCDEs, 0)

loadInputDataset ==
    \E ok \in BOOLEAN :
        /\ Handle
        /\ UNCHANGED <<colVars, mapVars, matchVars, callVars, targetCDEsPath, targetCDEs, mappingFormLayout,
                       mappingFile>>
        /\ IF ~ok
           THEN /\ inputDatasetPath' = ""
                /\ messageBox' = "Error"
                /\ disableMappingMapButtons
                /\ UNCHANGED <<inputDataset, columnsCDEsMappingData, matchedCdeCodes,
                               currentRow, mappingInitButton>>
           ELSE /\ inputDatasetPath' = "dataset.csv"
                /\ inputDataset' = DatasetFile
                /\ messageBox' = "none"
                /\ IF targetCDEsPath # ""
                   THEN /\ initMapping
                        /\ enableMappingButtons
                        /\ mappingInitButton' = TRUE
                        /\ UNCHANGED <<mappingSaveButton, mapButton>>
                   ELSE /\ disableMappingMapButtons
                        /\ mappingInitButton' = FALSE
                        /\ UNCHANGED <<columnsCDEsMappingData, matchedCdeCodes, currentRow>>

loadCDEsFile ==
    \E ok \in BOOLEAN :
        /\ Handle
        /\ UNCHANGED <<colVars, mapVars, matchVars, callVars, inputDatasetPath, inputDataset, mappingFormLayout,
                       mappingFile>>
        /\ IF ~ok
           THEN /\ targetCDEsPath' = ""
                /\ messageBox' = "Error"
                /\ disableMappingMapButtons
                /\ UNCHANGED <<targetCDEs, columnsCDEsMappingData, matchedCdeCodes,
                               currentRow, mappingInitButton>>
           ELSE /\ targetCDEsPath' = "cdes.xlsx"
                /\ targetCDEs' = SchemaFile
                /\ messageBox' = "none"
                /\ IF inputDatasetPath # ""
                   THEN /\ initMapping
                        /\ enableMappingButtons
                        /\ mappingInitButton' = TRUE
                        /\ UNCHANGED <<mappingSaveButton, mapButton>>
                   ELSE /\ disableMappingMapButtons
                        /\ mappingInitButton' = FALSE
                        /\ UNCHANGED <<columnsCDEsMappingData, matchedCdeCodes, currentRow>>

\* mappingMatch (1167-1215), with the fuzzy method
mappingMatch ==
    /\ mappingInitButton
    /\ Handle
    /\ columnsCDEsMappingData' =
          match_columns_to_cdes(inputDataset, DatasetColumns, targetCDEs, NbKeptMatches)
    /\ matchedCdeCodes' = MatchedWords(DatasetColumns, targetCDEs, NbKeptMatches)
    /\ SelectFirstRow
    /\ enableMappingButtons
    /\ messageBox' = "none"
    /\ UNCHANGED <<colVars, mapVars, matchVars, callVars, inputDatasetPath, inputDataset, targetCDEsPath,
                   targetCDEs, mappingInitButton, mappingSaveButton, mapButton, mappingFile>>

\* what the row handlers leave alone
RowHandlerKeeps ==
    Handle /\ UNCHANGED <<colVars, mapVars, matchVars, callVars, inputDatasetPath, inputDataset, targetCDEsPath,
                targetCDEs, matchedCdeCodes, buttonVars, mappingFile>>

\* addMappingTableRow (659-710); column "" is a cancelled dialog
addMappingTableRow ==
    \E column \in {DatasetColumns[i] : i \in DOMAIN DatasetColumns} \cup {""} :
        /\ RowHandlerKeeps
        /\ UNCHANGED <<currentRow, mappingFormLayout>>
        /\ IF DOMAIN inputDataset = {}
           THEN \* self.inputDatasetColumns: AttributeError
                messageBox' = "none" /\ UNCHANGED columnsCDEsMappingData
           ELSE IF column = ""
           THEN messageBox' = "No dataset column selected!"
                /\ UNCHANGED columnsCDEsMappingData
           ELSE IF DOMAIN matchedCdeCodes = {}
           THEN \* self.matchedCdeCodes is unset or None: the subscript raises
                messageBox' = "none" /\ UNCHANGED columnsCDEsMappingData
           ELSE /\ Len(columnsCDEsMappingData) < MaxRows
                /\ LET cdeCode == matchedCdeCodes[column][1]
                       cdeType == SchemaType(targetCDEs, cdeCode)
                       numeric == cdeType \in {"real", "integer"}
                   IN columnsCDEsMappingData' =
                        Append(columnsCDEsMappingData,
                               MappingRow(column, cdeCode, cdeType,
                                          IF numeric THEN "scale" ELSE "map",
                                          StrCell(IF numeric THEN "1.0" ELSE DEFAULT_MAP)))
                /\ messageBox' = "New row added to the mapping table!"

\* drop(index=row) then reset_index
DropRow(table, row) ==
    [i \in 1..(Len(table) - 1) |-> IF i <= row THEN table[i] ELSE table[i + 1]]

\* deleteMappingTableRow (712-724); the view keeps the row number it had
deleteMappingTableRow ==
    /\ RowHandlerKeeps
    /\ UNCHANGED <<currentRow, mappingFormLayout>>
    /\ IF currentRow >= 0 /\ currentRow < Len(columnsCDEsMappingData)
       THEN /\ columnsCDEsMappingData' = DropRow(columnsCDEsMappingData, currentRow)
            /\ messageBox' = "Row deleted from the mapping table!"
       ELSE \* selectedIndexes()[0]: IndexError
            messageBox' = "none" /\ UNCHANGED columnsCDEsMappingData

\* the user makes another row of the table the current one
currentRowChanged ==
    \E row \in 0..(MaxRows - 1) :
        /\ row < Len(columnsCDEsMappingData)
        /\ row # currentRow
        /\ currentRow' = row
        /\ mappingFormLayout' =
              initializeMappingEditForm(mappingFormLayout, columnsCDEsMappingData,
                                        matchedCdeCodes, targetCDEs, row)
        /\ messageBox' = "none"
        /\ RowHandlerKeeps
        /\ UNCHANGED columnsCDEsMappingData

\* the user picks another item of the cdeCode combo box
currentIndexChanged ==
    \E index \in 0..(NbKeptMatches - 1) :
        /\ index < Len(mappingFormLayout.cdeCode)
        /\ index # mappingFormLayout.cdeCodeIndex
        /\ mappingFormLayout' =
              updateMappingEditForm([mappingFormLayout EXCEPT !.cdeCodeIndex = index],
                                    columnsCDEsMappingData, matchedCdeCodes,
                                    targetCDEs, index)
        /\ messageBox' = "none"
        /\ RowHandlerKeeps
        /\ UNCHANGED <<columnsCDEsMappingData, currentRow>>

\* the user types into the transform line edit
transformEdited ==
    \E text \in UserTransforms :
        /\ text # mappingFormLayout.transform
        /\ mappingFormLayout' = [mappingFormLayout EXCEPT !.transform = text]
        /\ messageBox' = "none"
        /\ RowHandlerKeeps
        /\ UNCHANGED <<columnsCDEsMappingData, currentRow>>

\* updateMappingTableRow (777-794)
updateMappingTableRow ==
    /\ RowHandlerKeeps
    /\ UNCHANGED <<currentRow, mappingFormLayout>>
    /\ messageBox' = "none"
    /\ LET rowIndex == mappingFormLayout.mappingRowIndex IN
       IF rowIndex >= 0 /\ rowIndex < Len(columnsCDEsMappingData)
       THEN columnsCDEsMappingData' =
              [columnsCDEsMappingData EXCEPT ![rowIndex + 1] =
                  MappingRow(mappingFormLayout.datasetColumn,
                             currentText(mappingFormLayout),
                             mappingFormLayout.cdeType,
                             mappingFormLayout.transformType,
                             StrCell(mappingFormLayout.transform))]
       ELSE \* int(""): ValueError, or iloc out of bounds: IndexError
            UNCHANGED columnsCDEsMappingData

\* what the tool bar handlers of the mapping leave alone
ToolBarKeeps ==
    Handle /\ UNCHANGED <<colVars, mapVars, matchVars, callVars, inputDatasetPath, inputDataset, targetCDEsPath,
                targetCDEs, matchedCdeCodes, mappingInitButton>>

\* checkMapping (1014-1129)
checkMapping ==
    /\ mappingCheckButton
    /\ ToolBarKeeps
    /\ UNCHANGED <<columnsCDEsMappingData, currentRow, mappingFormLayout, mappingFile>>
    /\ LET verdict == MappingVerdict(columnsCDEsMappingData, targetCDEs) IN
       IF verdict = "SyntaxError"
       THEN messageBox' = "none" /\ UNCHANGED buttonVars
       ELSE /\ messageBox' = verdict
            /\ IF verdict = "The mapping is valid!"
               THEN /\ mappingSaveButton' = TRUE
                    /\ mapButton' = FALSE
                    /\ UNCHANGED <<mappingCheckButton, mappingLoadButton>>
               ELSE disableMappingMapButtons

\* saveMapping (955-987); json is whether the chosen name ends in .json
saveMapping ==
    /\ mappingSaveButton
    /\ ToolBarKeeps
    /\ UNCHANGED <<columnsCDEsMappingData, currentRow, mappingFormLayout,
                   mappingCheckButton, mappingSaveButton, mappingLoadButton>>
    /\ \E json \in BOOLEAN :
          IF ~json
          THEN messageBox' = "Error" /\ UNCHANGED <<mappingFile, mapButton>>
          ELSE /\ mappingFile' = to_json(columnsCDEsMappingData)
               /\ messageBox' = "Mapping saved!"
               /\ mapButton' = TRUE

\* loadMapping (874-953); the user picks no existing file, a file written
\* outside the window, or the file the path label already shows
loadMapping ==
    /\ mappingLoadButton
    /\ ToolBarKeeps
    /\ \E file \in ExternalFiles \cup {NoFile, mappingFile} :
          /\ mappingFile' = file
          /\ IF ~file.exists
             THEN /\ messageBox' = "Error"
                  /\ disableMappingMapButtons
                  /\ UNCHANGED <<columnsCDEsMappingData, currentRow, mappingFormLayout>>
             ELSE /\ IF MappingJsonOk(file)
                     THEN /\ columnsCDEsMappingData' = load_mapping_json(file)
                          /\ SelectFirstRow
                          /\ messageBox' = "Loaded mapping file"
                     ELSE \* except ValueError
                          /\ messageBox' = "Error"
                          /\ UNCHANGED <<columnsCDEsMappingData, currentRow,
                                         mappingFormLayout>>
                  /\ enableMappingButtons
                  /\ mappingSaveButton' = FALSE
                  /\ mapButton' = FALSE

\* map (1248-1305); output is the name picked in the save dialog: "" when
\* cancelled, "out" without the .csv ending, "out.csv"
map ==
    /\ mapButton
    /\ ToolBarKeeps
    /\ UNCHANGED <<columnsCDEsMappingData, currentRow, mappingFormLayout, mappingFile,
                   mappingCheckButton, mappingSaveButton, mappingLoadButton>>
    /\ \E output \in {"", "out", "out.csv"} :
          IF output = ""
          THEN messageBox' = "Error" /\ UNCHANGED mapButton
          ELSE IF output = "out"
          THEN \* QMessageBox.information(None, successMsg): TypeError
               messageBox' = "none" /\ UNCHANGED mapButton
          ELSE IF inputDatasetPath = ""
          THEN messageBox' = "Please load the input dataset!" /\ UNCHANGED mapButton
          ELSE IF ~mappingFile.exists
          THEN messageBox' = "Please save the mapping file" /\ UNCHANGED mapButton
          ELSE LET output_dataset ==
                       map_dataset(DatasetFile, mappingFile.rows, SchemaCodes(targetCDEs))
               IN IF output_dataset.status = "ok"
                  THEN messageBox' = "The mapping has been done successfully"
                       /\ mapButton' = TRUE
                  ELSE \* the exception leaves map with the button disabled
                       messageBox' = "none" /\ mapButton' = FALSE

Init ==
    /\ WindowConstructed
    /\ MatcherIdle
    /\ CallsIdle
    /\ in_column = << >>
    /\ in_cde_type = "integer"
    /\ in_transform_type = "scale"
    /\ in_transform = StrCell("nan")
    /\ out_column = Pending
    /\ dataset = << >>
    /\ mappings = << >>
    /\ cde_codes = << >>
    /\ mapped_dataset = MapPending

Next ==
    \/ loadInputDataset
    \/ loadCDEsFile
    \/ mappingMatch
    \/ addMappingTableRow
    \/ deleteMappingTableRow
    \/ currentRowChanged
    \/ currentIndexChanged
    \/ transformEdited
    \/ updateMappingTableRow
    \/ checkMapping
    \/ saveMapping
    \/ loadMapping
    \/ map

Spec == Init /\ [][Next]_vars

(***************************************************************************)
(* Claims on the window                                                    *)
(***************************************************************************)
\* C1: whenever the Map action is enabled, the mapping file it will read
\* holds rows that pass checkMapping: no duplicate cde_code, not only codes
\* absent from the schema, no unparseable transform.
C1_MapOnlyOnCheckedMapping ==
    mapButton =>
        MappingVerdict(mappingFile.rows, targetCDEs) = "The mapping is valid!"

\* C2 as stated: no table the window reaches has two rows of one cde_code.
C2_CodeUniqueInEveryTable == ~HasDuplicateCode(columnsCDEsMappingData)

\* C2, amended: a table that checkMapping has just reported valid has no two
\* rows of one cde_code.
C2_CodeUniqueWhenCheckedValid ==
    messageBox = "The mapping is valid!" => ~HasDuplicateCode(columnsCDEsMappingData)

C2_Witness ==
    /\ messageBox = "The mapping is valid!"
    /\ Len(columnsCDEsMappingData) >= 2
    /\ mappingSaveButton

\* C3: in every row of the table transform_type is "scale" exactly when
\* cde_type is "integer" or "real", and "map" otherwise.
C3_TransformTypeFollowsCdeType ==
    \A i \in DOMAIN columnsCDEsMappingData :
        columnsCDEsMappingData[i].transform_type =
            IF columnsCDEsMappingData[i].cde_type \in {"integer", "real"}
            THEN "scale" ELSE "map"

(***************************************************************************)
(* SpecCheck: checkMapping run on the tables of a bounded set, in a window *)
(* that has the dataset and the schema loaded.                             *)
(***************************************************************************)
\* no call of transform_dataset_column or map_dataset under way
EngineIdle ==
    /\ in_column = << >>
    /\ in_cde_type = "integer"
    /\ in_transform_type = "scale"
    /\ in_transform = StrCell("nan")
    /\ out_column = Pending
    /\ dataset = << >>
    /\ mappings = << >>
    /\ cde_codes = << >>
    /\ mapped_dataset = MapPending

CheckTransforms == {"1.0", "nan", "abc", "{", MAP_MF, MAP_INT}
CheckRows ==
    {MappingRow("sex", code, p[1], p[2], StrCell(text)) :
        code \in {"agevalue", "gender", "zzz"},
        p \in {<<"integer", "scale">>, <<"multinominal", "map">>},
        text \in CheckTransforms}
CheckTables == UNION {[1..n -> CheckRows] : n \in 0..MaxRows}

InitCheck ==
    /\ EngineIdle
    /\ MatcherIdle
    /\ CallsIdle
    /\ inputDatasetPath = "dataset.csv"
    /\ inputDataset = DatasetFile
    /\ targetCDEsPath = "cdes.xlsx"
    /\ targetCDEs = SchemaFile
    /\ columnsCDEsMappingData \in CheckTables
    /\ matchedCdeCodes = << >>
    /\ currentRow = -1
    /\ mappingFormLayout = MappingForm(-1, "", << >>, -1, "", "", "")
    /\ mappingInitButton = TRUE
    /\ mappingCheckButton = TRUE
    /\ mappingSaveButton = FALSE
    /\ mappingLoadButton = TRUE
    /\ mapButton = FALSE
    /\ mappingFile = NoFile
    /\ messageBox = "none"
    /\ handled = 0

NextCheck == checkMapping

SpecCheck == InitCheck /\ [][NextCheck]_vars

(***************************************************************************)
(* Claims on checkMapping                                                  *)
(***************************************************************************)
\* checkMapping has run on the table
Checked == handled >= 1
SomeCodeAbsent(table) == \E i \in DOMAIN table : ~InSchema(SchemaFile, table[i].cde_code)
AllTransformsEvaluate(table) ==
    \A i \in DOMAIN table : literal_eval(table[i].transform.s) = "ok"

\* C11: on a table with no other kind of violation, the check reports
\* invalid CDE codes exactly when some row's cde_code is not in the schema.
C11_AbsentCodeIsReported ==
    (/\ Checked
     /\ columnsCDEsMappingData # << >>
     /\ ~HasDuplicateCode(columnsCDEsMappingData)
     /\ AllTransformsEvaluate(columnsCDEsMappingData))
    => (messageBox = "Error: Invalid CDE Codes"
          <=> SomeCodeAbsent(columnsCDEsMappingData))

\* the transform is valid for its transform_type: a float literal or "nan"
\* for scale, a dict literal from string to string or "nan" for map
ValidForType(row) ==
    \/ row.transform.s = "nan"
    \/ row.transform_type = "scale" /\ row.transform.s \in FloatLiterals
    \/ row.transform_type = "map" /\ row.transform.s \in DictLiterals

\* C12: on a table whose codes are distinct and in the schema, the check
\* ends with a dialog (no exception), and that dialog reports invalid
\* transforms exactly when some row's transform is not valid for its type.
C12_InvalidTransformIsReported ==
    (/\ Checked
     /\ columnsCDEsMappingData # << >>
     /\ ~HasDuplicateCode(columnsCDEsMappingData)
     /\ ~SomeCodeAbsent(columnsCDEsMappingData))
    => /\ messageBox # "none"
       /\ messageBox = "Error: Invalid Transform"
            <=> \E i \in DOMAIN columnsCDEsMappingData :
                   ~ValidForType(columnsCDEsMappingData[i])

\* C13: every kind of violation the table has is reported by the one run.
C13_EveryKindIsReported ==
    Checked =>
        /\ HasDuplicateCode(columnsCDEsMappingData)
              => messageBox = "Error: Duplicated mapped CDE code"
        /\ SomeCodeAbsent(columnsCDEsMappingData)
              => messageBox = "Error: Invalid CDE Codes"
        /\ (\E i \in DOMAIN columnsCDEsMappingData :
               literal_eval(columnsCDEsMappingData[i].transform.s) = "ValueError")
              => messageBox = "Error: Invalid Transform"

(***************************************************************************)
(* Claims on the mapping file                                              *)
(***************************************************************************)
\* some record of the file lacks one of the five keys, or the file has none
LacksField(file) ==
    \/ file.rows = << >>
    \/ \E i \in DOMAIN file.rows :
          \E key \in MAPPING_TABLE_COLUMNS : ~HasKey(file.rows[i], key)

\* this step is loadMapping on an existing file
LoadMappingStep ==
    /\ handled' = handled + 1
    /\ mappingFile'.exists
    /\ messageBox' \in {"Error", "Loaded mapping file"}
    /\ mappingCheckButton' /\ mappingLoadButton'
    /\ ~mappingSaveButton' /\ ~mapButton'

\* C14: loading a file that lacks one of the five fields ends with an error
\* and leaves the mapping table as it was.
C14_IncompleteFileIsRejected ==
    [][(LoadMappingStep /\ LacksField(mappingFile'))
          => (messageBox' = "Error"
              /\ columnsCDEsMappingData' = columnsCDEsMappingData)]_vars

\* C15: loading back the file that holds the table as saveMapping wrote it
\* succeeds and gives the same rows, in order, with the same values.
C15_SaveThenLoadIsIdentity ==
    [][(LoadMappingStep /\ mappingFile' = to_json(columnsCDEsMappingData))
          => (messageBox' = "Loaded mapping file"
              /\ columnsCDEsMappingData' = columnsCDEsMappingData)]_vars

(***************************************************************************)
(* SpecMatch: one call of match_columns_to_cdes (matching.py 32-177) with  *)
(* every method, on schemas shorter and longer than nb_kept_matches.  The  *)
(* embeddings of glove and chars2vec come from pretrained models: the      *)
(* cosine distance of a column to a code is an input of the call.          *)
(***************************************************************************)
MatchCodes == {"agevalue", "gender", "valueage"}
CodeType(code) ==
    CASE code = "agevalue" -> "integer"
      [] code = "gender" -> "multinominal"
      [] OTHER -> "real"
\* schemas of distinct codes, in every order
MatchSchemas ==
    {[i \in DOMAIN codes |->
        [code |-> codes[i], type |-> CodeType(codes[i]),
         values |-> IF codes[i] = "gender" THEN VALUES_MF ELSE NoValues]] :
        codes \in {c \in UNION {[1..n -> MatchCodes] : n \in 0..MaxCodes} :
                      \A i, j \in DOMAIN c : c[i] = c[j] => i = j}}
MatchColumnLists == {<< >>, <<"age">>, <<"age", "sex">>, <<"sex", "age">>}
MatchingMethods == {"fuzzy", "glove", "chars2vec"}
\* a method name that match_columns_to_cdes does not know
OtherMethods == {"levenshtein"}
\* the cosine distances of the columns to the codes of a schema
CosineTables(columns, schema) ==
    [{columns[i] : i \in DOMAIN columns} ->
        [{schema[i].code : i \in DOMAIN schema} -> 0..MaxDistance]]
NoCosine == [c \in {"age", "sex"} |-> [code \in MatchCodes |-> 0]]

\* [None] * n
Nones(n) == [i \in 1..n |-> "None"]

\* one entry of matched_cde_codes, fuzzy method (matching.py 115-124);
\* distances are 1 - 0.01 * ratio, counted in hundredths
FuzzyResult(column, codes, nb_kept_matches) ==
    LET words == FuzzyMatches(column, codes, nb_kept_matches) IN
    [words |-> words,
     distances |-> [i \in DOMAIN words |-> 100 - FuzzRatio(column, words[i])],
     embeddings |-> Nones(nb_kept_matches)]

\* np.argsort(distances) (embedding.py 162): the default sort is not stable,
\* so every ascending order of the indices is a possible outcome
ArgSorts(distances) ==
    {p \in [DOMAIN distances -> DOMAIN distances] :
        /\ \A i, j \in DOMAIN p : p[i] = p[j] => i = j
        /\ \A i, j \in DOMAIN p : i < j => distances[p[i]] <= distances[p[j]]}

\* find_n_closest_embeddings (embedding.py 129-170), given the outcome of
\* argsort; the embedding of a code is named by the code
find_n_closest_embeddings(sorted_indices, distances, embedding_words, n) ==
    LET kept == SubSeq(sorted_indices, 1,
                       IF Len(sorted_indices) < n THEN Len(sorted_indices) ELSE n)
    IN [distances |-> [i \in DOMAIN kept |-> distances[kept[i]]],
        embeddings |-> [i \in DOMAIN kept |-> embedding_words[kept[i]]],
        embedding_words |-> [i \in DOMAIN kept |-> embedding_words[kept[i]]]]

\* one entry of matched_cde_codes, glove and chars2vec (matching.py 134-150)
EmbeddingResult(sorted_indices, distances, codes, nb_kept_matches) ==
    LET closest == find_n_closest_embeddings(sorted_indices, distances, codes,
                                             nb_kept_matches)
    IN [words |-> closest.embedding_words,
        distances |-> closest.distances,
        embeddings |-> closest.embeddings]

ColumnSet(columns) == {columns[i] : i \in DOMAIN columns}

\* the table built from the last kept match instead of words[0]
InitialTable_lastword(frame, columns, schema, matched) ==
    [i \in DOMAIN columns |->
        LET words == matched[columns[i]].words
            cde_code == words[Len(words)]
            cde_type == SchemaType(schema, cde_code)
        IN MappingRow(columns[i], cde_code, cde_type,
                      IF cde_type \in {"integer", "real"} THEN "scale" ELSE "map",
                      StrCell(make_initial_transform(frame, schema, columns[i], cde_code).s))]
\* the mapping_table built from matched_cde_codes (matching.py 151-171)
InitialTable(frame, columns, schema, matched) ==
    [i \in DOMAIN columns |->
        LET cde_code == matched[columns[i]].words[1]
            cde_type == SchemaType(schema, cde_code)
        IN MappingRow(columns[i], cde_code, cde_type,
                      IF cde_type \in {"integer", "real"} THEN "scale" ELSE "map",
                      StrCell(make_initial_transform(frame, schema, columns[i], cde_code).s))]

\* what the call gives: words[0] of an empty list raises IndexError
MatchOutcome(columns, schema, matched) ==
    IF \E c \in ColumnSet(columns) : matched[c].words = << >>
    THEN [status |-> "IndexError", mapping_table |-> << >>, matched_cde_codes |-> << >>]
    ELSE [status |-> "ok",
          mapping_table |-> InitialTable(DatasetFile, columns, schema, matched),
          matched_cde_codes |-> matched]

\* neither branch of the method test runs (matching.py 97, 125): with
\* matched_cde_codes empty the list assigned to mapping_table["cde_code"] is
\* empty and, when the dataset has columns, of the wrong length (ValueError);
\* with no column the return statement reads dataset_column_embeddings,
\* which was never assigned (UnboundLocalError)
UnknownMethodOutcome_returns(columns) ==
    [status |-> IF columns = << >> THEN "ok" ELSE "ValueError",
     mapping_table |-> << >>, matched_cde_codes |-> << >>]
UnknownMethodOutcome(columns) ==
    [status |-> IF columns = << >> THEN "UnboundLocalError" ELSE "ValueError",
     mapping_table |-> << >>, matched_cde_codes |-> << >>]

\* the cosine distances of a column to schema["code"], in the schema's order
CosineDistances(column, codes) == [i \in DOMAIN codes |-> cosine[column][codes[i]]]

InitMatch ==
    /\ match_columns \in MatchColumnLists
    /\ match_schema \in MatchSchemas
    /\ match_kept \in 0..MaxKept
    /\ matching_method \in MatchingMethods \cup OtherMethods
    /\ cosine \in IF matching_method \notin {"glove", "chars2vec"} THEN {NoCosine}
                   ELSE CosineTables(match_columns, match_schema)
    /\ match_result = MatchPending
    /\ EngineIdle
    /\ WindowConstructed
    /\ CallsIdle

MatchColumns ==
    /\ match_result = MatchPending
    /\ LET codes == SchemaCodes(match_schema) IN
       IF matching_method = "fuzzy"
       THEN match_result' =
               MatchOutcome(match_columns, match_schema,
                            [c \in ColumnSet(match_columns) |->
                                FuzzyResult(c, codes, match_kept)])
       ELSE IF matching_method \notin {"glove", "chars2vec"}
       THEN match_result' = UnknownMethodOutcome(match_columns)
       ELSE \E argsort \in [ColumnSet(match_columns) ->
                                UNION {ArgSorts(CosineDistances(c, codes)) :
                                          c \in ColumnSet(match_columns)}] :
               /\ \A c \in ColumnSet(match_columns) :
                      \A i, j \in DOMAIN codes :
                          i < j => cosine[c][codes[argsort[c][i]]] <= cosine[c][codes[argsort[c][j]]]
               /\ match_result' =
                     MatchOutcome(match_columns, match_schema,
                                  [c \in ColumnSet(match_columns) |->
                                      EmbeddingResult(argsort[c], CosineDistances(c, codes),
                                                      codes, match_kept)])
    /\ UNCHANGED <<match_columns, match_schema, match_kept, matching_method, cosine,
                   colVars, mapVars, guiVars, callVars>>

NextMatch == MatchColumns

SpecMatch == InitMatch /\ [][NextMatch]_vars

(***************************************************************************)
(* Claims on the match results (SpecMatch)                                 *)
(***************************************************************************)
Matched == match_result.status = "ok"
MatchResultOf(column) == match_result.matched_cde_codes[column]
\* the dissimilarity of a column and a code under the call's method
Dissimilarity(column, code) ==
    IF matching_method = "fuzzy" THEN 100 - FuzzRatio(column, code)
    ELSE cosine[column][code]

\* C16: in every match result the lists words, distances and embeddings have
\* the same length, and that length is at most nb_kept_matches.
C16_ListsHaveOneLength ==
    Matched =>
        \A c \in ColumnSet(match_columns) :
            /\ Len(MatchResultOf(c).words) = Len(MatchResultOf(c).distances)
            /\ Len(MatchResultOf(c).distances) = Len(MatchResultOf(c).embeddings)
            /\ Len(MatchResultOf(c).words) <= match_kept

\* C17: in every match result, len(words) is the smaller of nb_kept_matches
\* and the number of schema codes.
C17_Cardinality ==
    Matched =>
        \A c \in ColumnSet(match_columns) :
            Len(MatchResultOf(c).words) =
                IF match_kept < Len(match_schema) THEN match_kept ELSE Len(match_schema)
\* results of each method on a schema longer than nb_kept_matches
C17_Witness ==
    /\ Matched
    /\ match_kept < Len(match_schema)
    /\ matching_method = "fuzzy"

C19_TiesKeepSchemaOrder ==
    Matched =>
        \A c \in ColumnSet(match_columns) :
            \A i, j \in DOMAIN match_schema :
                LET r == MatchResultOf(c)
                    a == match_schema[i].code
                    b == match_schema[j].code
                IN (i < j /\ Dissimilarity(c, a) = Dissimilarity(c, b) /\ InSeq(r.words, b)) =>
                      /\ InSeq(r.words, a)
                      /\ PyIndexOf(r.words, a) < PyIndexOf(r.words, b)

\* C22: a call with a matching method other than fuzzy, glove and chars2vec
\* ends in an error and gives no mapping table and no match result,
\* whatever the dataset and the schema.
C22_UnknownMethodFails ==
    (matching_method \notin MatchingMethods /\ match_result # MatchPending) =>
        /\ match_result.status \in {"ValueError", "UnboundLocalError"}
        /\ match_result.mapping_table = << >>
        /\ match_result.matched_cde_codes = << >>
\* the call with an unknown method on a dataset without columns
C22_Witness ==
    /\ matching_method \notin MatchingMethods
    /\ match_columns = << >>
    /\ match_result # MatchPending

\* C20: the returned mapping table has one row per dataset column, in the
\* columns' order; the row's cde_code is words[0] of the column's match
\* result, its cde_type the schema's type of that code, and its transform
\* what make_initial_transform gives for the column and the code.
C20_InitialBuild ==
    Matched =>
        /\ Len(match_result.mapping_table) = Len(match_columns)
        /\ \A i \in DOMAIN match_columns :
              LET row == match_result.mapping_table[i]
                  code == MatchResultOf(match_columns[i]).words[1]
              IN /\ row.dataset_column = match_columns[i]
                 /\ row.cde_code = code
                 /\ row.cde_type = SchemaType(match_schema, code)
                 /\ row.transform =
                       StrCell(make_initial_transform(DatasetFile, match_schema,
                                                      match_columns[i], code).s)
\* a table of two rows whose columns got different best matches
C20_Witness ==
    /\ Matched
    /\ Len(match_result.mapping_table) = 2
    /\ match_result.mapping_table[1].cde_code # match_result.mapping_table[2].cde_code
    /\ Len(MatchResultOf(match_columns[1]).words) >= 2

(***************************************************************************)
(* SpecSynth: one call of make_initial_transform (matching.py 180-253) on  *)
(* a dataset of one column and a schema of one CDE.                        *)
(***************************************************************************)
SynthValues == {PyStr("M"), PyStr("F"), NaN, PyInt(4)}
SynthColumns == UNION {[1..n -> SynthValues] : n \in 0..MaxSynth}
\* the type names of the specification and those of the code
SynthTypes ==
    {"integer", "real", "binomial", "multinomial", "binominal", "multinominal",
     "nominal", "text"}
VALUES_M == << <<"M", "Male">> >>
VALUES_MFO == << <<"M", "Male">>, <<"F", "Female">>, <<"O", "Other">> >>
VALUES_NAN == << <<"nan", "Missing">>, <<"M", "Male">>, <<"F", "Female">> >>
SynthCdeValues == {NoValues, VALUES_M, VALUES_MF, VALUES_MFO, VALUES_NAN}

InitSynth ==
    /\ synth_column \in SynthColumns
    /\ synth_cde \in {[code |-> "gender", type |-> t, values |-> v] :
                         t \in SynthTypes, v \in SynthCdeValues}
    /\ initial_transform = SynthPending
    /\ EngineIdle
    /\ WindowConstructed
    /\ MatcherIdle
    /\ CleanIdle

MakeInitialTransform ==
    /\ initial_transform = SynthPending
    /\ initial_transform' =
          make_initial_transform([c \in {"sex"} |-> synth_column], <<synth_cde>>,
                                 "sex", synth_cde.code)
    /\ UNCHANGED <<synth_column, synth_cde, cleanVars, colVars, mapVars, guiVars, matchVars>>

NextSynth == MakeInitialTransform

SpecSynth == InitSynth /\ [][NextSynth]_vars

(***************************************************************************)
(* Claims on the transform synthesizer (SpecSynth)                         *)
(***************************************************************************)
Synthesized == initial_transform # SynthPending
\* the pairs of an element of one list and an element of the other
Seq2(keys, values) ==
    {<<keys[i], values[j]>> : i \in DOMAIN keys, j \in DOMAIN values}
\* the two lists handed to generate_initial_transform
SourceValues == ColumnValueTexts(synth_column)
DomainValues == CdeCodeValues(SourceValues, synth_cde.values)
\* generate_initial_transform was reached, and the column is not all missing
Generated ==
    /\ initial_transform.status = "ok"
    /\ synth_cde.type \notin {"integer", "real"}
    /\ \E i \in DOMAIN synth_column : ~isnull(synth_column[i])

\* C21: make_initial_transform returns a transform for every CDE of type
\* integer, real, binomial or multinomial ('1.0' for integer and real), and
\* raises the unknown CDE type error only for a type outside these four.
C21_TypeDispatch ==
    Synthesized =>
        /\ synth_cde.type \in {"integer", "real", "binomial", "multinomial"} =>
              initial_transform.status = "ok"
        /\ synth_cde.type \in {"integer", "real"} => initial_transform.s = "1.0"
        /\ initial_transform.status = "ValueError" =>
              synth_cde.type \notin {"integer", "real", "binomial", "multinomial"}

\* C23: with as many distinct source values as domain values, the transform
\* is the dict with one entry per distinct source value, in order, whose
\* target is the first domain value of highest ratio to the source value.
C23_EqualCardinality ==
    (Generated /\ Len(SourceValues) = Len(DomainValues)) =>
        \E items \in [DOMAIN SourceValues -> Seq2(SourceValues, DomainValues)] :
            /\ initial_transform.s = DictText(items)
            /\ \A i \in DOMAIN SourceValues :
                  /\ items[i][1] = SourceValues[i]
                  /\ \E k \in DOMAIN DomainValues :
                        /\ items[i][2] = DomainValues[k]
                        /\ \A j \in DOMAIN DomainValues :
                              FuzzRatio(SourceValues[i], DomainValues[j])
                                 <= FuzzRatio(SourceValues[i], DomainValues[k])
                        /\ \A j \in DOMAIN DomainValues :
                              j < k => FuzzRatio(SourceValues[i], DomainValues[j])
                                          < FuzzRatio(SourceValues[i], DomainValues[k])
\* two source values got the same target, one of them by a tie
C23_Witness ==
    /\ Generated
    /\ Len(SourceValues) = 2
    /\ Len(DomainValues) = 2
    /\ initial_transform.s = "{'1': 'M', 'M': 'M'}"

\* C24: with fewer distinct source values than domain values, the transform
\* is the dict of the pairs (source value i, domain value i), in order, kept
\* where both are 'nan' or neither is.
C24_FewerValues ==
    (Generated /\ Len(SourceValues) < Len(DomainValues)) =>
        \E kept \in SUBSET (DOMAIN SourceValues) :
            /\ kept = {i \in DOMAIN SourceValues :
                          (SourceValues[i] = "nan") = (DomainValues[i] = "nan")}
            /\ \E items \in [1..Cardinality(kept) -> Seq2(SourceValues, DomainValues)] :
                  /\ initial_transform.s = DictText(items)
                  /\ \A p \in DOMAIN items :
                        \E i \in kept :
                            /\ Cardinality({j \in kept : j < i}) = p - 1
                            /\ items[p] = <<SourceValues[i], DomainValues[i]>>
\* a pair was dropped and a pair was kept
C24_Witness ==
    /\ Generated
    /\ Len(SourceValues) = 2
    /\ Len(DomainValues) = 3
    /\ initial_transform.s = "{'M': 'F'}"

\* C28: every transform that make_initial_transform returns is accepted by
\* the transform test of checkMapping.
C28_SynthesizedPassesCheck ==
    (Synthesized /\ initial_transform.status = "ok") =>
        literal_eval(initial_transform.s) = "ok"

(***************************************************************************)
(* Claims on the row editor (Spec)                                         *)
(***************************************************************************)
\* updateMappingTableRow writes a row of the table, with the transform text
\* as the editor's handlers set it (not typed by the user)
CommitStep ==
    /\ updateMappingTableRow
    /\ mappingFormLayout.mappingRowIndex >= 0
    /\ mappingFormLayout.mappingRowIndex < Len(columnsCDEsMappingData)
    /\ mappingFormLayout.transform \notin UserTransforms

\* C25: a commit of the row editor changes only the edited row; when the
\* editor holds another code than the stored one, the stored row gets the
\* schema's type of the new code, the transform type of that type and the
\* default transform of that transform type; when it holds the stored code,
\* the stored transform is kept.
C25_UpdateCascade ==
    [][CommitStep =>
          LET r == mappingFormLayout.mappingRowIndex + 1
              old == columnsCDEsMappingData[r]
              new == columnsCDEsMappingData'[r]
          IN /\ Len(columnsCDEsMappingData') = Len(columnsCDEsMappingData)
             /\ \A i \in DOMAIN columnsCDEsMappingData :
                    i # r => columnsCDEsMappingData'[i] = columnsCDEsMappingData[i]
             /\ new.cde_code = currentText(mappingFormLayout)
             /\ IF new.cde_code # old.cde_code
                THEN /\ InSchema(targetCDEs, new.cde_code)
                     /\ new.cde_type = SchemaType(targetCDEs, new.cde_code)
                     /\ new.transform_type =
                           IF new.cde_type \in {"integer", "real"} THEN "scale" ELSE "map"
                     /\ new.transform.s =
                           IF new.transform_type = "scale" THEN "1.0" ELSE DEFAULT_MAP
                ELSE new.transform.s = old.transform.s]_vars

(***************************************************************************)
(* map_dataset(dataset, mappings) of mip_dmp/dataset/mapping.py (23-68),   *)
(* the same code as mip_datatools/dataset/mapping.py (8-53): the loop runs *)
(* over the mapping rows; its apply_transform_map does not lower-case and  *)
(* its apply_transform_scale has no try around the casts.                  *)
(***************************************************************************)
\* the loop over mapping_values.items() (dataset/mapping.py 132-136)
RECURSIVE dataset_MapItems(_, _)
dataset_MapItems(col, items) ==
    IF items = << >> THEN col
    ELSE dataset_MapItems(ReplaceEqual(col, Head(items)[1], Head(items)[2]), Tail(items))

\* apply_transform_map (dataset/mapping.py 114-137)
dataset_apply_transform_map(col, transform) ==
    IF transform.ty # "str" THEN Raised("TypeError")
    ELSE IF transform.s \in DictLiterals
         THEN Returned(dataset_MapItems(col, DictLiteral(transform.s)), FALSE)
    ELSE IF transform.s \in FloatLiterals THEN Raised("AttributeError")
    ELSE IF transform.s = "{" THEN Raised("SyntaxError")
    ELSE Raised("NameError")

\* apply_transform_scale (dataset/mapping.py 140-183): a failing cast of a
\* fully populated column leaves the call with ValueError
dataset_apply_transform_scale(col, cde_type, scaling_factor) ==
    IF ~AnyNull(col)
    THEN IF cde_type = "integer"
         THEN IF \A i \in DOMAIN col : IntOk(col[i])
              THEN Returned([i \in DOMAIN col |->
                               PyInt(Mul(IntOf(col[i]), Trunc(scaling_factor)))], FALSE)
              ELSE Raised("ValueError")
         ELSE IF cde_type = "real"
         THEN IF \A i \in DOMAIN col : FloatOk(col[i])
              THEN Returned([i \in DOMAIN col |->
                               PyFloat(Mul(FloatOf(col[i]), scaling_factor))], FALSE)
              ELSE Raised("ValueError")
         ELSE Returned(col, FALSE)
    ELSE ScaleWithNaN(col, cde_type, scaling_factor)

\* transform_dataset_column (dataset/mapping.py 71-111)
dataset_transform_dataset_column(col, cde_type, transform_type, transform) ==
    IF transform_type = "map" /\ transform # StrCell("nan")
    THEN dataset_apply_transform_map(col, transform)
    ELSE IF transform_type = "scale" /\ transform # StrCell("nan")
    THEN IF transform.ty = "null" THEN Raised("TypeError")
         ELSE IF transform.s \notin FloatLiterals THEN Raised("ValueError")
         ELSE dataset_apply_transform_scale(col, cde_type, FloatLiteral(transform.s))
    ELSE Returned(col, TRUE)

\* one turn of the loop over mappings (dataset/mapping.py 45-63):
\* dataset[dataset_column] of a column the dataset lacks raises KeyError
dataset_MappedColumn(ds, mapping) ==
    IF mapping.dataset_column \notin DOMAIN ds
    THEN [kind |-> "raise", name |-> mapping.cde_code, col |-> << >>,
          warned |-> FALSE, exc |-> "KeyError"]
    ELSE LET r == dataset_transform_dataset_column(ds[mapping.dataset_column],
                      mapping.cde_type, mapping.transform_type, mapping.transform)
         IN IF r.status = "ok"
            THEN [kind |-> "series", name |-> mapping.cde_code, col |-> r.col,
                  warned |-> r.warned, exc |-> ""]
            ELSE [kind |-> "raise", name |-> mapping.cde_code, col |-> << >>,
                  warned |-> FALSE, exc |-> r.status]

\* map_dataset (dataset/mapping.py 23-68)
dataset_map_dataset(ds, rows) ==
    LET ms == [i \in DOMAIN rows |-> dataset_MappedColumn(ds, rows[i])] IN
    IF \E i \in DOMAIN ms : ms[i].kind = "raise"
    THEN [status |-> ms[CHOOSE i \in DOMAIN ms :
                          /\ ms[i].kind = "raise"
                          /\ \A j \in DOMAIN ms : ms[j].kind = "raise" => i <= j].exc,
          columns |-> << >>]
    ELSE Concat(ms, NbRows(ds))

(***************************************************************************)
(* SpecUnordered: the datasets and mapping rows of SpecMap go once through *)
(* map_dataset(dataset, mappings).                                         *)
(***************************************************************************)
InitUnordered ==
    /\ dataset \in MapDatasets
    /\ mappings \in MapRowLists
    /\ cde_codes = << >>
    /\ mapped_dataset = MapPending
    /\ in_column = << >>
    /\ in_cde_type = "integer"
    /\ in_transform_type = "scale"
    /\ in_transform = StrCell("nan")
    /\ out_column = Pending
    /\ WindowConstructed
    /\ MatcherIdle
    /\ CallsIdle

MapDatasetUnordered ==
    /\ mapped_dataset = MapPending
    /\ mapped_dataset' = dataset_map_dataset(dataset, mappings)
    /\ UNCHANGED <<dataset, mappings, cde_codes, colVars, guiVars, matchVars, callVars>>

NextUnordered == MapDatasetUnordered

SpecUnordered == InitUnordered /\ [][NextUnordered]_vars

(***************************************************************************)
(* Claims on map_dataset(dataset, mappings)                                *)
(***************************************************************************)
\* the rows whose dataset_column the dataset has, in row order
RECURSIVE PresentRows(_)
PresentRows(rows) ==
    IF rows = << >> THEN << >>
    ELSE IF Head(rows).dataset_column \in DOMAIN dataset
         THEN <<Head(rows)>> \o PresentRows(Tail(rows))
    ELSE PresentRows(Tail(rows))
\* every row that has its column can be transformed
PresentRowsTransform ==
    \A i \in DOMAIN mappings :
        mappings[i].dataset_column \in DOMAIN dataset =>
            dataset_transform_dataset_column(dataset[mappings[i].dataset_column],
                mappings[i].cde_type, mappings[i].transform_type,
                mappings[i].transform).status = "ok"

\* C26: without a code list the output has one column per mapping row whose
\* dataset_column is in the dataset, named by the row's cde_code, in row
\* order; rows whose dataset_column is absent are skipped and the others are
\* still output.
C26_UnorderedSkipsAbsent ==
    (mapped_dataset # MapPending /\ PresentRowsTransform /\ PresentRows(mappings) # << >>) =>
        /\ mapped_dataset.status = "ok"
        /\ Len(mapped_dataset.columns) = Len(PresentRows(mappings))
        /\ \A i \in DOMAIN mapped_dataset.columns :
              mapped_dataset.columns[i].name = PresentRows(mappings)[i].cde_code

(***************************************************************************)
(* Claims on the tool bar after a check (Spec)                             *)
(***************************************************************************)
\* checkMapping ran to its end and reported a violation
FailedCheckStep ==
    /\ checkMapping
    /\ messageBox' \notin {"The mapping is valid!", "none"}

\* C27: after checkMapping reports a violation the check action is still
\* enabled, so the table can be corrected and checked again.
C27_CheckStaysAvailable ==
    [][FailedCheckStep => mappingCheckButton']_vars

(***************************************************************************)
(* Claims on the candidates of the row editor (Spec)                       *)
(***************************************************************************)
\* selecting this row finds its column in the match results and its code in
\* the offered list (initializeMappingEditForm raises otherwise)
RowHasCandidates(rowData) ==
    /\ HasColumnMatches(matchedCdeCodes, targetCDEs, rowData.dataset_column)
    /\ InSeq(ColumnMatches(matchedCdeCodes, targetCDEs, rowData.dataset_column),
             rowData.cde_code)

\* adding a row for a column of the loaded dataset finds the match results set
AddRowHasMatches ==
    DOMAIN inputDataset # {} => DOMAIN matchedCdeCodes # {}

\* C29: selecting any row of the mapping table and adding a row never raise:
\* the match results are set when addMappingTableRow consults them, they hold
\* every row's dataset_column, and the candidates offered for a row contain
\* the row's cde_code.
C29_EditorHasCandidates ==
    /\ AddRowHasMatches
    /\ \A i \in DOMAIN columnsCDEsMappingData :
          RowHasCandidates(columnsCDEsMappingData[i])

\* the selection part of C29 alone
C29_RowsHaveCandidates ==
    \A i \in DOMAIN columnsCDEsMappingData :
        RowHasCandidates(columnsCDEsMappingData[i])

(***************************************************************************)
(* CDE clean-up: replace_characters_in_given_keys                          *)
(* (mip_datatools/cdes/update.py 17-94, scripts/update_cdes_json.py 83-128)*)
(***************************************************************************)
\* sub in s, for a one-character sub
PyContains(s, sub) == \E i \in 1..Len(s) : SubSeq(s, i, i) = sub

\* s.split(sep) for a one-character sep
RECURSIVE PySplit(_, _)
PySplit(s, sep) ==
    IF ~PyContains(s, sep) THEN <<s>>
    ELSE LET i == CHOOSE j \in 1..Len(s) :
                     /\ SubSeq(s, j, j) = sep
                     /\ \A h \in 1..(j - 1) : SubSeq(s, h, h) # sep
         IN <<SubSeq(s, 1, i - 1)>> \o PySplit(SubSeq(s, i + 1, Len(s)), sep)

\* sep.join(parts)
RECURSIVE PyJoin(_, _)
PyJoin(sep, parts) ==
    IF parts = << >> THEN ""
    ELSE IF Len(parts) = 1 THEN parts[1]
    ELSE parts[1] \o sep \o PyJoin(sep, Tail(parts))

\* replace_chars (update.py 17-39): the pairs of zip(old, new) are applied one
\* after the other to the running string
RECURSIVE replace_chars(_, _, _)
replace_chars(in_str, old, new) ==
    IF old = << >> \/ new = << >> THEN in_str
    ELSE replace_chars(PyJoin(Head(new), PySplit(in_str, Head(old))), Tail(old), Tail(new))

\* the inner loop of the script (update_cdes_json.py 120-124): every pair is
\* applied to in_dict[k], and out_dict[k] keeps what the last pair gave
RECURSIVE script_replace(_, _, _, _)
script_replace(in_str, out_str, old, new) ==
    IF old = << >> \/ new = << >> THEN out_str
    ELSE script_replace(in_str, PyJoin(Head(new), PySplit(in_str, Head(old))),
                        Tail(old), Tail(new))

\* the loop over keys inside the try block; a key in_dict lacks raises KeyError
RECURSIVE ReplaceKeys(_, _, _, _, _, _, _)
ReplaceKeys(module, ind, outd, ks, old, new, exc) ==
    IF ks = << >> THEN [raised |-> FALSE, d |-> outd]
    ELSE LET k == Head(ks) IN
         IF k \notin DOMAIN ind THEN [raised |-> TRUE, d |-> outd]
         ELSE LET replaced ==
                      IF module = "scripts"
                      THEN script_replace(ind[k], outd[k], old, new)
                      ELSE replace_chars(ind[k], old, new)
                  next ==
                      IF /\ ~PyContains(ind[k], " ")
                         /\ exc.given
                         /\ ~InSeq(exc.list, ind[k])
                      THEN [outd EXCEPT ![k] = replaced]
                      ELSE outd
              IN ReplaceKeys(module, ind, next, Tail(ks), old, new, exc)

\* the cells of the workbook; replace_chars_in_workbook (update.py 97-127)
\* rebinds its loop variable and returns the workbook it was given
WorkbookCells == <<"a-b", "FDG-PET">>
replace_chars_in_workbook(in_wb, in_str, out_str) == in_wb

\* replace_characters_in_given_keys: out_dict is a copy of in_dict; any
\* exception is caught and an empty dictionary returned. The script's
\* function takes and returns no workbook.
replace_characters_in_given_keys(module, ind, in_wb, old, new, ks, exc) ==
    LET loop == ReplaceKeys(module, ind, ind, ks, old, new, exc)
    IN IF loop.raised
       THEN [status |-> "returned", d |-> << >>, wb |-> << >>]
       ELSE [status |-> "returned", d |-> loop.d,
             wb |-> IF module = "scripts" THEN << >>
                    ELSE replace_chars_in_workbook(in_wb, "", "")]

UpdateModules == {"mip_datatools.cdes.update", "scripts"}
CleanValues == {"ab", "a-b", "a_b", "a-b_c", "a-b c", "FDG-PET"}
InDicts ==
    {[code |-> c, label |-> l] : c \in CleanValues, l \in CleanValues}
        \cup {[code |-> c] : c \in CleanValues}
CharPairs ==
    {[old |-> <<"-", "_">>, new |-> <<" ", " ">>], [old |-> <<"_">>, new |-> <<"+">>]}
KeyLists == {<<"code", "label">>, <<"code">>}
\* exceptions=None, an empty list, and the first entry of STRING_EXCEPTIONS
ExceptionLists ==
    {[given |-> FALSE, list |-> << >>], [given |-> TRUE, list |-> << >>],
     [given |-> TRUE, list |-> <<"FDG-PET">>]}

InitClean ==
    /\ update_module \in UpdateModules
    /\ in_dict \in InDicts
    /\ \E pair \in CharPairs : old_chars = pair.old /\ new_chars = pair.new
    /\ in_keys \in KeyLists
    /\ in_exceptions \in ExceptionLists
    /\ out_dict = CleanPending
    /\ EngineIdle
    /\ WindowConstructed
    /\ MatcherIdle
    /\ SynthIdle

ReplaceCharactersInGivenKeys ==
    /\ out_dict = CleanPending
    /\ out_dict' = replace_characters_in_given_keys(update_module, in_dict, WorkbookCells,
                                                    old_chars, new_chars, in_keys,
                                                    in_exceptions)
    /\ UNCHANGED <<update_module, in_dict, old_chars, new_chars, in_keys, in_exceptions,
                   synthVars, colVars, mapVars, guiVars, matchVars>>

NextClean == ReplaceCharactersInGivenKeys

SpecClean == InitClean /\ [][NextClean]_vars

(***************************************************************************)
(* Claims on the CDE clean-up (SpecClean)                                  *)
(***************************************************************************)
\* the call returned and in_dict has every given key
Cleaned ==
    /\ out_dict # CleanPending
    /\ \A i \in DOMAIN in_keys : in_keys[i] \in DOMAIN in_dict

\* every occurrence of old_chars[i] in text replaced by new_chars[i]
RECURSIVE EachReplaced(_)
EachReplaced(text) ==
    IF text = "" THEN ""
    ELSE LET c == SubSeq(text, 1, 1)
             rest == EachReplaced(SubSeq(text, 2, Len(text)))
         IN IF \E i \in DOMAIN old_chars : old_chars[i] = c
            THEN new_chars[CHOOSE i \in DOMAIN old_chars : old_chars[i] = c] \o rest
            ELSE c \o rest

\* the value is left alone: it has a space or is listed in exceptions
Exempt(text) ==
    \/ PyContains(text, " ")
    \/ in_exceptions.given /\ InSeq(in_exceptions.list, text)

\* out_dict has the keys of in_dict, and each given key holds the value of
\* in_dict, with every old character replaced unless the value is exempt
CleanedAsDescribed ==
    /\ DOMAIN out_dict.d = DOMAIN in_dict
    /\ \A i \in DOMAIN in_keys :
          out_dict.d[in_keys[i]] =
              IF Exempt(in_dict[in_keys[i]]) THEN in_dict[in_keys[i]]
              ELSE EachReplaced(in_dict[in_keys[i]])

\* C30: in each given key a value without a space that is not listed in
\* exceptions has every old character replaced by its new character; a value
\* with a space or listed in exceptions is returned unchanged; with
\* exceptions=None no value is exempt.
C30_CleanUp ==
    Cleaned => CleanedAsDescribed

\* the same with a list of exceptions given
C30_WithExceptionsGiven ==
    (Cleaned /\ in_exceptions.given) => CleanedAsDescribed

\* the same for the function of mip_datatools.cdes.update only
C30_LibraryWithExceptionsGiven ==
    (Cleaned /\ in_exceptions.given /\ update_module # "scripts") => CleanedAsDescribed

====
